---- MODULE Spec2Model ----
(***************************************************************************)
(* Health status classification and trend prediction engine                *)
(* (HealthAnalyzer of health_analyzer.py).                                 *)
(*                                                                         *)
(* Representation.  heart rate and blood pressure are integers.  Oxygen    *)
(* saturation and temperature are REAL columns of the store, so a reading  *)
(* carries them as floats; the model keeps both in tenths of a unit        *)
(* (97.0 % is 970, 36.8 C is 368) and the thresholds they are compared     *)
(* with are scaled the same way.  Python tuples are TLA+ tuples, Python    *)
(* strings are TLA+ strings, None and the empty list are the empty tuple   *)
(* (both are falsy, and `not x` is all the code asks of them).             *)
(***************************************************************************)
EXTENDS Integers, Sequences, FiniteSets, TLC

VARIABLES thresholds, pc, op, args, outcome, calls, log, frames, app, store

vars == <<thresholds, pc, op, args, outcome, calls, log, frames, app, store>>

\* Number of times the Refresh Data button is pressed.
MaxPresses == 2

\* How far below the lowest and above the highest cut-point of a metric the
\* inputs of the single-metric classifiers range.
Margin == 2

\* Longest window of readings handed to predict_potential_conditions, for
\* the windows that are every sequence over WindowReadings.
MaxWindow == 3

\* Longest window of readings handed to predict_potential_conditions, for
\* the windows that are built from breach counts.
LongWindow == 10

\* Number of calls made on one analyzer in a session.
MaxCalls == 3

(***************************************************************************)
(* HealthAnalyzer.__init__ : the thresholds table                          *)
(***************************************************************************)
Thresholds ==
  [heart_rate |-> [low |-> 60, high |-> 100, very_high |-> 120],
   blood_pressure |-> [normal_systolic |-> 120, elevated_systolic |-> 130,
                       high_systolic_1 |-> 140, high_systolic_2 |-> 180,
                       normal_diastolic |-> 80, high_diastolic_1 |-> 90,
                       high_diastolic_2 |-> 120],
   oxygen_level |-> [normal |-> 950, concerning |-> 920, low |-> 900],
   temperature |-> [low |-> 361, normal_low |-> 365, normal_high |-> 375,
                    elevated |-> 380, high |-> 390]]

(***************************************************************************)
(* Python values                                                           *)
(***************************************************************************)
None == <<>>

\* self.current_user_id = None.  User ids are positive integers (the primary
\* key of the users table), so 0 stands for "no user"; like None it is falsy.
NoUser == 0

\* `not x` for x a tuple, a list or None
Not(x) == Len(x) = 0

\* a call either returns a value or raises
Return(v) == [kind |-> "return", value |-> v]
Raise(e) == [kind |-> "raise", value |-> e]

\* str(n) for an int n
FormatInt(n) == ToString(n)

\* str(x) for a float x with one decimal, x given in tenths
FormatTenths(x) ==
  LET a == IF x < 0 THEN 0 - x ELSE x
  IN (IF x < 0 THEN "-" ELSE "") \o ToString(a \div 10) \o "." \o ToString(a % 10)

\* sep.join(parts)
RECURSIVE Join(_, _)
Join(parts, sep) ==
  IF Len(parts) = 0 THEN ""
  ELSE IF Len(parts) = 1 THEN parts[1]
  ELSE parts[1] \o sep \o Join(Tail(parts), sep)

\* x in lst
In(x, lst) == \E i \in 1..Len(lst) : lst[i] = x

(***************************************************************************)
(* The four metric classifiers                                             *)
(***************************************************************************)
\* analyze_heart_rate turning away values no heart can have
analyze_heart_rate_validating(heart_rate) ==
  IF heart_rate < 0 \/ heart_rate > 300
    THEN <<"Unknown", "Invalid heart rate (" \o FormatInt(heart_rate) \o " BPM)">>
  ELSE IF heart_rate < thresholds.heart_rate.low
    THEN <<"Warning", "Heart rate is low (" \o FormatInt(heart_rate) \o " BPM)">>
  ELSE IF heart_rate > thresholds.heart_rate.very_high
    THEN <<"Danger", "Heart rate is very high (" \o FormatInt(heart_rate) \o " BPM)">>
  ELSE IF heart_rate > thresholds.heart_rate.high
    THEN <<"Warning", "Heart rate is elevated (" \o FormatInt(heart_rate) \o " BPM)">>
  ELSE <<"Normal", "Heart rate is normal (" \o FormatInt(heart_rate) \o " BPM)">>

\* analyze_heart_rate with the very_high comparison made inclusive
analyze_heart_rate_inclusive(heart_rate) ==
  IF heart_rate < thresholds.heart_rate.low
    THEN <<"Warning", "Heart rate is low (" \o FormatInt(heart_rate) \o " BPM)">>
  ELSE IF heart_rate >= thresholds.heart_rate.very_high
    THEN <<"Danger", "Heart rate is very high (" \o FormatInt(heart_rate) \o " BPM)">>
  ELSE IF heart_rate > thresholds.heart_rate.high
    THEN <<"Warning", "Heart rate is elevated (" \o FormatInt(heart_rate) \o " BPM)">>
  ELSE <<"Normal", "Heart rate is normal (" \o FormatInt(heart_rate) \o " BPM)">>

\* analyze_heart_rate naming the condition in place of the value
analyze_heart_rate_naming(heart_rate) ==
  IF heart_rate < thresholds.heart_rate.low
    THEN <<"Warning", "Heart rate is low (Bradycardia)">>
  ELSE IF heart_rate > thresholds.heart_rate.very_high
    THEN <<"Danger", "Heart rate is very high (Tachycardia)">>
  ELSE IF heart_rate > thresholds.heart_rate.high
    THEN <<"Warning", "Heart rate is elevated (Tachycardia)">>
  ELSE <<"Normal", "Heart rate is normal">>

analyze_heart_rate(heart_rate) ==
  IF heart_rate < thresholds.heart_rate.low
    THEN <<"Warning", "Heart rate is low (" \o FormatInt(heart_rate) \o " BPM)">>
  ELSE IF heart_rate > thresholds.heart_rate.very_high
    THEN <<"Danger", "Heart rate is very high (" \o FormatInt(heart_rate) \o " BPM)">>
  ELSE IF heart_rate > thresholds.heart_rate.high
    THEN <<"Warning", "Heart rate is elevated (" \o FormatInt(heart_rate) \o " BPM)">>
  ELSE <<"Normal", "Heart rate is normal (" \o FormatInt(heart_rate) \o " BPM)">>

\* the systolic ladder: (sys_status, sys_msg)
check_systolic(systolic) ==
  IF systolic >= thresholds.blood_pressure.high_systolic_2
    THEN <<"Danger", "Systolic pressure is very high (" \o FormatInt(systolic) \o " mmHg)">>
  ELSE IF systolic >= thresholds.blood_pressure.high_systolic_1
    THEN <<"Warning", "Systolic pressure is high (" \o FormatInt(systolic) \o " mmHg)">>
  ELSE IF systolic >= thresholds.blood_pressure.elevated_systolic
    THEN <<"Caution", "Systolic pressure is elevated (" \o FormatInt(systolic) \o " mmHg)">>
  ELSE <<"Normal", "Systolic pressure is normal (" \o FormatInt(systolic) \o " mmHg)">>

\* the diastolic ladder given an "elevated" tier from normal_diastolic upwards
check_diastolic_with_caution(diastolic) ==
  IF diastolic >= thresholds.blood_pressure.high_diastolic_2
    THEN <<"Danger", "Diastolic pressure is very high (" \o FormatInt(diastolic) \o " mmHg)">>
  ELSE IF diastolic >= thresholds.blood_pressure.high_diastolic_1
    THEN <<"Warning", "Diastolic pressure is high (" \o FormatInt(diastolic) \o " mmHg)">>
  ELSE IF diastolic >= thresholds.blood_pressure.normal_diastolic
    THEN <<"Caution", "Diastolic pressure is elevated (" \o FormatInt(diastolic) \o " mmHg)">>
  ELSE <<"Normal", "Diastolic pressure is normal (" \o FormatInt(diastolic) \o " mmHg)">>

\* the diastolic ladder: (dia_status, dia_msg)
check_diastolic(diastolic) ==
  IF diastolic >= thresholds.blood_pressure.high_diastolic_2
    THEN <<"Danger", "Diastolic pressure is very high (" \o FormatInt(diastolic) \o " mmHg)">>
  ELSE IF diastolic >= thresholds.blood_pressure.high_diastolic_1
    THEN <<"Warning", "Diastolic pressure is high (" \o FormatInt(diastolic) \o " mmHg)">>
  ELSE <<"Normal", "Diastolic pressure is normal (" \o FormatInt(diastolic) \o " mmHg)">>

\* the combination with the Caution branch forgotten
bp_overall_status_without_caution(sys_status, dia_status) ==
  IF In("Danger", <<sys_status, dia_status>>) THEN "Danger"
  ELSE IF In("Warning", <<sys_status, dia_status>>) THEN "Warning"
  ELSE "Normal"

\* "take the worse of the two"
bp_overall_status(sys_status, dia_status) ==
  IF In("Danger", <<sys_status, dia_status>>) THEN "Danger"
  ELSE IF In("Warning", <<sys_status, dia_status>>) THEN "Warning"
  ELSE IF In("Caution", <<sys_status, dia_status>>) THEN "Caution"
  ELSE "Normal"

\* analyze_blood_pressure giving a sub-message only for a value that is not
\* Normal
analyze_blood_pressure_silent_on_normal(systolic, diastolic) ==
  LET sys == check_systolic(systolic)
      dia == check_diastolic(diastolic)
      overall_status == bp_overall_status(sys[1], dia[1])
      overall_msg == "BP: " \o FormatInt(systolic) \o "/" \o FormatInt(diastolic) \o " mmHg"
  IN <<overall_status, overall_msg,
       IF sys[1] = "Normal" THEN "" ELSE sys[2],
       IF dia[1] = "Normal" THEN "" ELSE dia[2]>>

analyze_blood_pressure(systolic, diastolic) ==
  LET sys == check_systolic(systolic)
      dia == check_diastolic(diastolic)
      overall_status == bp_overall_status(sys[1], dia[1])
      overall_msg == "BP: " \o FormatInt(systolic) \o "/" \o FormatInt(diastolic) \o " mmHg"
  IN <<overall_status, overall_msg, sys[2], dia[2]>>

\* analyze_oxygen_level with the "concerning" comparison made inclusive
analyze_oxygen_level_inclusive(oxygen) ==
  IF oxygen < thresholds.oxygen_level.low
    THEN <<"Danger", "Oxygen level is critically low (" \o FormatTenths(oxygen) \o "%)">>
  ELSE IF oxygen <= thresholds.oxygen_level.concerning
    THEN <<"Warning", "Oxygen level is concerning (" \o FormatTenths(oxygen) \o "%)">>
  ELSE IF oxygen < thresholds.oxygen_level.normal
    THEN <<"Caution", "Oxygen level is slightly below normal (" \o FormatTenths(oxygen) \o "%)">>
  ELSE <<"Normal", "Oxygen level is normal (" \o FormatTenths(oxygen) \o "%)">>

analyze_oxygen_level(oxygen) ==
  IF oxygen < thresholds.oxygen_level.low
    THEN <<"Danger", "Oxygen level is critically low (" \o FormatTenths(oxygen) \o "%)">>
  ELSE IF oxygen < thresholds.oxygen_level.concerning
    THEN <<"Warning", "Oxygen level is concerning (" \o FormatTenths(oxygen) \o "%)">>
  ELSE IF oxygen < thresholds.oxygen_level.normal
    THEN <<"Caution", "Oxygen level is slightly below normal (" \o FormatTenths(oxygen) \o "%)">>
  ELSE <<"Normal", "Oxygen level is normal (" \o FormatTenths(oxygen) \o "%)">>

\* analyze_temperature with the low-temperature test done against normal_low
analyze_temperature_normal_low(temp) ==
  IF temp > thresholds.temperature.high
    THEN <<"Danger", "High fever detected (" \o FormatTenths(temp) \o "°C)">>
  ELSE IF temp > thresholds.temperature.elevated
    THEN <<"Warning", "Elevated temperature (" \o FormatTenths(temp) \o "°C)">>
  ELSE IF temp > thresholds.temperature.normal_high
    THEN <<"Caution", "Slightly elevated temperature (" \o FormatTenths(temp) \o "°C)">>
  ELSE IF temp < thresholds.temperature.normal_low
    THEN <<"Warning", "Temperature is below normal (" \o FormatTenths(temp) \o "°C)">>
  ELSE <<"Normal", "Temperature is normal (" \o FormatTenths(temp) \o "°C)">>

analyze_temperature(temp) ==
  IF temp > thresholds.temperature.high
    THEN <<"Danger", "High fever detected (" \o FormatTenths(temp) \o "°C)">>
  ELSE IF temp > thresholds.temperature.elevated
    THEN <<"Warning", "Elevated temperature (" \o FormatTenths(temp) \o "°C)">>
  ELSE IF temp > thresholds.temperature.normal_high
    THEN <<"Caution", "Slightly elevated temperature (" \o FormatTenths(temp) \o "°C)">>
  ELSE IF temp < thresholds.temperature.low
    THEN <<"Warning", "Temperature is below normal (" \o FormatTenths(temp) \o "°C)">>
  ELSE <<"Normal", "Temperature is normal (" \o FormatTenths(temp) \o "°C)">>

(***************************************************************************)
(* get_overall_health_status                                               *)
(***************************************************************************)
\* the warnings collected with the blood-pressure message put first
collect_warnings_bp_first(hr, bp, ox, tmp) ==
  LET w0 == <<>>
      w1 == IF bp[1] # "Normal" THEN Append(w0, bp[2]) ELSE w0
      w2 == IF hr[1] # "Normal" THEN Append(w1, hr[2]) ELSE w1
      w3 == IF ox[1] # "Normal" THEN Append(w2, ox[2]) ELSE w2
      w4 == IF tmp[1] # "Normal" THEN Append(w3, tmp[2]) ELSE w3
  IN w4

\* the messages of the metrics whose status is not "Normal", appended in the
\* order heart rate, blood pressure, oxygen, temperature
collect_warnings(hr, bp, ox, tmp) ==
  LET w0 == <<>>
      w1 == IF hr[1] # "Normal" THEN Append(w0, hr[2]) ELSE w0
      w2 == IF bp[1] # "Normal" THEN Append(w1, bp[2]) ELSE w1
      w3 == IF ox[1] # "Normal" THEN Append(w2, ox[2]) ELSE w2
      w4 == IF tmp[1] # "Normal" THEN Append(w3, tmp[2]) ELSE w3
  IN w4

\* the overall message with the all-clear text kept for a single warning
make_overall_msg_needs_two(warnings) ==
  IF Len(warnings) > 1 THEN "Health concerns: " \o Join(warnings, "; ")
  ELSE "All health metrics are within normal ranges"

\* the overall message made from the collected warnings
make_overall_msg(warnings) ==
  IF ~Not(warnings) THEN "Health concerns: " \o Join(warnings, "; ")
  ELSE "All health metrics are within normal ranges"

\* the statuses list with the temperature status left out
list_statuses_without_temp(hr, bp, ox, tmp) == <<hr[1], bp[1], ox[1]>>

\* statuses = [hr_status, bp_status, ox_status, temp_status]
list_statuses(hr, bp, ox, tmp) == <<hr[1], bp[1], ox[1], tmp[1]>>

\* the cascade falling through to "Unknown" when nothing is flagged
worst_status_default_unknown(statuses) ==
  IF In("Danger", statuses) THEN "Danger"
  ELSE IF In("Warning", statuses) THEN "Warning"
  ELSE IF In("Caution", statuses) THEN "Caution"
  ELSE "Unknown"

\* "take the worst status"
worst_status(statuses) ==
  IF In("Danger", statuses) THEN "Danger"
  ELSE IF In("Warning", statuses) THEN "Warning"
  ELSE IF In("Caution", statuses) THEN "Caution"
  ELSE "Normal"

\* the classifier calls get_overall_health_status makes, in call order
overall_calls(health_data) ==
  IF Not(health_data) THEN <<>>
  ELSE <<"analyze_heart_rate", "analyze_blood_pressure",
         "analyze_oxygen_level", "analyze_temperature">>

get_overall_health_status(health_data) ==
  IF Not(health_data) THEN <<"Unknown", "No health data available">>
  ELSE
    LET heart_rate == health_data[4]
        bp_sys == health_data[5]
        bp_dia == health_data[6]
        oxygen == health_data[7]
        temp == health_data[8]
        hr == analyze_heart_rate(heart_rate)
        bp == analyze_blood_pressure(bp_sys, bp_dia)
        ox == analyze_oxygen_level(oxygen)
        tmp == analyze_temperature(temp)
        warnings == collect_warnings(hr, bp, ox, tmp)
        statuses == list_statuses(hr, bp, ox, tmp)
        overall_status == worst_status(statuses)
        overall_msg == make_overall_msg(warnings)
    IN <<overall_status, overall_msg>>

(***************************************************************************)
(* predict_potential_conditions                                            *)
(***************************************************************************)
\* the blood-pressure test counting elevated systolic values too
high_bp_elevated(record) ==
  \/ record[5] >= thresholds.blood_pressure.elevated_systolic
  \/ record[6] >= thresholds.blood_pressure.high_diastolic_1

\* the blood-pressure test asking for both values to be high
high_bp_both(record) ==
  /\ record[5] >= thresholds.blood_pressure.high_systolic_1
  /\ record[6] >= thresholds.blood_pressure.high_diastolic_1

high_bp(record) ==
  \/ record[5] >= thresholds.blood_pressure.high_systolic_1
  \/ record[6] >= thresholds.blood_pressure.high_diastolic_1

\* the heart-rate test made inclusive
high_hr_inclusive(record) == record[4] >= thresholds.heart_rate.high

high_hr(record) == record[4] > thresholds.heart_rate.high

\* the oxygen test done against the "low" cut-point
low_ox_critical(record) == record[7] < thresholds.oxygen_level.low

low_ox(record) == record[7] < thresholds.oxygen_level.concerning

\* the temperature test made inclusive
high_temp_inclusive(record) == record[8] >= thresholds.temperature.elevated

high_temp(record) == record[8] > thresholds.temperature.elevated

\* (count / total) * 100 >= limit.  The code compares doubles; for windows of
\* up to 300 readings the comparison agrees with the exact one below.
PercentAtLeast(count, total, limit) == 100 * count >= limit * total

\* the percentage cut off after one decimal instead of rounded
FormatPercent_truncating(count, total) ==
  LET t == (1000 * count) \div total
  IN ToString(t \div 10) \o "." \o ToString(t % 10) \o "%"

\* f"{(count / total) * 100:.1f}%": the percentage rounded to one decimal,
\* ties to even (the double is exact at a tie for windows below 80 readings)
FormatPercent(count, total) ==
  LET q == (1000 * count) \div total
      r == (1000 * count) % total
      t == IF 2 * r > total \/ (2 * r = total /\ q % 2 = 1) THEN q + 1 ELSE q
  IN ToString(t \div 10) \o "." \o ToString(t % 10) \o "%"

Prediction(condition, confidence, description) ==
  [condition |-> condition, confidence |-> confidence, description |-> description]

\* the predictions collected with each new one put in front of the list
collect_conditions_reversed(high_bp_count, high_hr_count, low_ox_count, high_temp_count, total_readings) ==
  LET c0 == <<>>
      c1 == IF PercentAtLeast(high_temp_count, total_readings, 20)
                THEN Append(c0, Prediction("Recurring Fever",
                       FormatPercent(high_temp_count, total_readings),
                       "Multiple elevated temperature readings suggest infection or inflammation."))
                ELSE c0
      c2 == IF PercentAtLeast(low_ox_count, total_readings, 30)
                THEN Append(c1, Prediction("Respiratory Concern",
                       FormatPercent(low_ox_count, total_readings),
                       "Recurring low oxygen levels may indicate respiratory issues."))
                ELSE c1
      c3 == IF PercentAtLeast(high_hr_count, total_readings, 40)
                THEN Append(c2, Prediction("Tachycardia Tendency",
                       FormatPercent(high_hr_count, total_readings),
                       "Frequent elevated heart rate may indicate stress or cardiac issues."))
                ELSE c2
      c4 == IF PercentAtLeast(high_bp_count, total_readings, 50)
                THEN Append(c3, Prediction("Hypertension Risk",
                       FormatPercent(high_bp_count, total_readings),
                       "Consistently elevated blood pressure readings suggest hypertension risk."))
                ELSE c3
  IN c4

\* the predictions collected by an if / elif chain: the first rule that
\* fires hides the others
collect_conditions_exclusive(high_bp_count, high_hr_count, low_ox_count, high_temp_count, total_readings) ==
  IF PercentAtLeast(high_bp_count, total_readings, 50)
    THEN <<Prediction("Hypertension Risk",
                       FormatPercent(high_bp_count, total_readings),
                       "Consistently elevated blood pressure readings suggest hypertension risk.")>>
  ELSE IF PercentAtLeast(high_hr_count, total_readings, 40)
    THEN <<Prediction("Tachycardia Tendency",
                       FormatPercent(high_hr_count, total_readings),
                       "Frequent elevated heart rate may indicate stress or cardiac issues.")>>
  ELSE IF PercentAtLeast(low_ox_count, total_readings, 30)
    THEN <<Prediction("Respiratory Concern",
                       FormatPercent(low_ox_count, total_readings),
                       "Recurring low oxygen levels may indicate respiratory issues.")>>
  ELSE IF PercentAtLeast(high_temp_count, total_readings, 20)
    THEN <<Prediction("Recurring Fever",
                       FormatPercent(high_temp_count, total_readings),
                       "Multiple elevated temperature readings suggest infection or inflammation.")>>
  ELSE <<>>

\* "Identify potential conditions based on patterns": one test and one
\* append per rule, in the order of the code
collect_conditions(high_bp_count, high_hr_count, low_ox_count, high_temp_count, total_readings) ==
  LET c0 == <<>>
      c1 == IF PercentAtLeast(high_bp_count, total_readings, 50)
                THEN Append(c0, Prediction("Hypertension Risk",
                       FormatPercent(high_bp_count, total_readings),
                       "Consistently elevated blood pressure readings suggest hypertension risk."))
                ELSE c0
      c2 == IF PercentAtLeast(high_hr_count, total_readings, 40)
                THEN Append(c1, Prediction("Tachycardia Tendency",
                       FormatPercent(high_hr_count, total_readings),
                       "Frequent elevated heart rate may indicate stress or cardiac issues."))
                ELSE c1
      c3 == IF PercentAtLeast(low_ox_count, total_readings, 30)
                THEN Append(c2, Prediction("Respiratory Concern",
                       FormatPercent(low_ox_count, total_readings),
                       "Recurring low oxygen levels may indicate respiratory issues."))
                ELSE c2
      c4 == IF PercentAtLeast(high_temp_count, total_readings, 20)
                THEN Append(c3, Prediction("Recurring Fever",
                       FormatPercent(high_temp_count, total_readings),
                       "Multiple elevated temperature readings suggest infection or inflammation."))
                ELSE c3
  IN c4

\* the counting loop starting at the second reading of the history
scan_history_from_second(health_data_history) ==
    LET high_bp_count ==
          Cardinality({i \in 2..Len(health_data_history) : high_bp(health_data_history[i])})
        high_hr_count ==
          Cardinality({i \in 2..Len(health_data_history) : high_hr(health_data_history[i])})
        low_ox_count ==
          Cardinality({i \in 2..Len(health_data_history) : low_ox(health_data_history[i])})
        high_temp_count ==
          Cardinality({i \in 2..Len(health_data_history) : high_temp(health_data_history[i])})
        total_readings == Len(health_data_history)
    IN IF total_readings = 0 THEN Raise("ZeroDivisionError")
       ELSE Return(collect_conditions(high_bp_count, high_hr_count, low_ox_count,
                                      high_temp_count, total_readings))

\* the body of predict_potential_conditions after its guard: count, divide,
\* collect
scan_history(health_data_history) ==
    LET high_bp_count ==
          Cardinality({i \in 1..Len(health_data_history) : high_bp(health_data_history[i])})
        high_hr_count ==
          Cardinality({i \in 1..Len(health_data_history) : high_hr(health_data_history[i])})
        low_ox_count ==
          Cardinality({i \in 1..Len(health_data_history) : low_ox(health_data_history[i])})
        high_temp_count ==
          Cardinality({i \in 1..Len(health_data_history) : high_temp(health_data_history[i])})
        total_readings == Len(health_data_history)
    IN IF total_readings = 0 THEN Raise("ZeroDivisionError")
       ELSE Return(collect_conditions(high_bp_count, high_hr_count, low_ox_count,
                                      high_temp_count, total_readings))

\* predict_potential_conditions without its guard for an empty history
predict_potential_conditions_unguarded(health_data_history) ==
  scan_history(health_data_history)

predict_potential_conditions(health_data_history) ==
  IF Not(health_data_history) THEN Return(<<>>)
  ELSE scan_history(health_data_history)

(***************************************************************************)
(* predict_potential_conditions of the HealthAnalyzer of                   *)
(* database_manager.py: the same thresholds table and the same counting,   *)
(* with a fifth rule for low heart rates.                                  *)
(***************************************************************************)
\* `elif heart_rate < low`: only reached when the heart rate is not high
low_hr(record) == ~high_hr(record) /\ record[4] < thresholds.heart_rate.low

dm_scan_history(health_data_history) ==
    LET high_bp_count ==
          Cardinality({i \in 1..Len(health_data_history) : high_bp(health_data_history[i])})
        high_hr_count ==
          Cardinality({i \in 1..Len(health_data_history) : high_hr(health_data_history[i])})
        low_hr_count ==
          Cardinality({i \in 1..Len(health_data_history) : low_hr(health_data_history[i])})
        low_ox_count ==
          Cardinality({i \in 1..Len(health_data_history) : low_ox(health_data_history[i])})
        high_temp_count ==
          Cardinality({i \in 1..Len(health_data_history) : high_temp(health_data_history[i])})
        total_readings == Len(health_data_history)
        c0 == <<>>
        c1 == IF PercentAtLeast(high_bp_count, total_readings, 50)
                THEN Append(c0, Prediction("Hypertension Risk",
                       FormatPercent(high_bp_count, total_readings),
                       "Consistently elevated blood pressure readings suggest hypertension risk. Hypertension can lead to heart disease, stroke, and kidney problems if left untreated."))
                ELSE c0
        c2 == IF PercentAtLeast(high_hr_count, total_readings, 40)
                THEN Append(c1, Prediction("Tachycardia Tendency",
                       FormatPercent(high_hr_count, total_readings),
                       "Frequent elevated heart rate may indicate stress, anxiety, or cardiac issues. Persistent tachycardia can lead to heart failure or stroke over time."))
                ELSE c1
        c3 == IF PercentAtLeast(low_hr_count, total_readings, 40)
                THEN Append(c2, Prediction("Bradycardia Tendency",
                       FormatPercent(low_hr_count, total_readings),
                       "Frequent low heart rate may indicate a conduction disorder or could be a side effect of certain medications. Severe bradycardia can cause fatigue, dizziness, or fainting."))
                ELSE c2
        c4 == IF PercentAtLeast(low_ox_count, total_readings, 30)
                THEN Append(c3, Prediction("Respiratory Concern",
                       FormatPercent(low_ox_count, total_readings),
                       "Recurring low oxygen levels may indicate respiratory issues such as COPD, asthma, or sleep apnea. Chronic hypoxemia can affect heart function and cognitive abilities."))
                ELSE c3
        c5 == IF PercentAtLeast(high_temp_count, total_readings, 20)
                THEN Append(c4, Prediction("Recurring Fever",
                       FormatPercent(high_temp_count, total_readings),
                       "Multiple elevated temperature readings suggest infection, inflammation, or immune system disorders. Persistent fever requires medical evaluation to identify the underlying cause."))
                ELSE c4
    IN IF total_readings = 0 THEN Raise("ZeroDivisionError") ELSE Return(c5)

dm_predict_potential_conditions(health_data_history) ==
  IF Not(health_data_history) THEN Return(<<>>)
  ELSE dm_scan_history(health_data_history)

(***************************************************************************)
(* The HealthAnalyzer of the single-file application (part_000): no        *)
(* thresholds table, the cut-points are literals; oxygen and temperature   *)
(* in tenths as above.                                                     *)
(***************************************************************************)
p0_analyze_heart_rate(hr) ==
  IF hr < 60 THEN <<"Warning", "Low heart rate (Bradycardia)">>
  ELSE IF hr > 100 THEN <<"Warning", "High heart rate (Tachycardia)">>
  ELSE <<"Normal", "Heart rate is normal">>

p0_analyze_blood_pressure(sys, dia) ==
  IF sys < 90 \/ dia < 60
    THEN <<"Danger", "Low blood pressure", "Low systolic: " \o FormatInt(sys),
           "Low diastolic: " \o FormatInt(dia)>>
  ELSE IF sys >= 140 \/ dia >= 90
    THEN <<"Warning", "High blood pressure", "High systolic: " \o FormatInt(sys),
           "High diastolic: " \o FormatInt(dia)>>
  ELSE <<"Normal", "Blood pressure is normal", "Normal systolic", "Normal diastolic">>

p0_analyze_oxygen_level(o2) ==
  IF o2 < 950 THEN <<"Warning", "Low oxygen saturation">>
  ELSE <<"Normal", "Oxygen level is normal">>

p0_analyze_temperature(temp) ==
  IF temp < 360 THEN <<"Warning", "Low body temperature">>
  ELSE IF temp > 375 THEN <<"Warning", "Elevated temperature">>
  ELSE <<"Normal", "Temperature is normal">>

p0_get_overall_health_status(health_data) ==
  IF Not(health_data) THEN <<"Unknown", "No health data available">>
  ELSE
    LET hr == p0_analyze_heart_rate(health_data[4])
        bp == p0_analyze_blood_pressure(health_data[5], health_data[6])
        o2 == p0_analyze_oxygen_level(health_data[7])
        tmp == p0_analyze_temperature(health_data[8])
        w0 == <<>>
        w1 == IF hr[1] # "Normal" THEN Append(w0, hr[2]) ELSE w0
        w2 == IF bp[1] # "Normal" THEN Append(w1, bp[2]) ELSE w1
        w3 == IF o2[1] # "Normal" THEN Append(w2, o2[2]) ELSE w2
        w4 == IF tmp[1] # "Normal" THEN Append(w3, tmp[2]) ELSE w3
    IN IF ~Not(w4)
         THEN <<"Warning", "Health concerns detected:\n" \o Join(w4, "\n")>>
         ELSE <<"Normal", "All health metrics are within normal ranges">>

\* the predictions are made from the last reading of the history alone
p0_predict_potential_conditions(health_data) ==
  IF Not(health_data) THEN Return(<<>>)
  ELSE
    LET latest == health_data[Len(health_data)]
        hr == latest[4]
        sys == latest[5]
        o2 == latest[7]
        temp == latest[8]
        c0 == <<>>
        c1 == IF hr > 100 /\ sys > 140
                THEN Append(c0, Prediction("Hypertension", "High",
                       "Elevated blood pressure and heart rate may indicate hypertension."))
                ELSE c0
        c2 == IF o2 < 950
                THEN Append(c1, Prediction("Respiratory Issue", "Medium",
                       "Low oxygen saturation may indicate respiratory problems."))
                ELSE c1
        c3 == IF temp > 375
                THEN Append(c2, Prediction("Infection", "Medium",
                       "Elevated temperature may indicate an infection or inflammatory response."))
                ELSE c2
    IN Return(c3)

(***************************************************************************)
(* Inputs                                                                  *)
(***************************************************************************)
\* a record of the health_data table: (record_id, user_id, timestamp,
\* heart_rate, bp_systolic, bp_diastolic, oxygen_level, temperature)
Reading(heart_rate, bp_sys, bp_dia, oxygen, temp) ==
  <<1, 1, "2024-01-01 08:00:00", heart_rate, bp_sys, bp_dia, oxygen, temp>>

\* values no patient has: negative, zero and very large
Implausible == {0 - 1000000, 0 - 1, 0, 1000000}

HeartRates ==
  {0 - Margin} \cup Implausible \cup
  ((Thresholds.heart_rate.low - Margin)..(Thresholds.heart_rate.very_high + Margin))

Systolics ==
  Implausible \cup
  (Thresholds.blood_pressure.elevated_systolic - Margin)
    ..(Thresholds.blood_pressure.high_systolic_2 + Margin)

Diastolics ==
  Implausible \cup
  (Thresholds.blood_pressure.high_diastolic_1 - Margin)
    ..(Thresholds.blood_pressure.high_diastolic_2 + Margin)

Oxygens ==
  Implausible \cup
  (Thresholds.oxygen_level.low - Margin)..(Thresholds.oxygen_level.normal + Margin)

Temperatures ==
  Implausible \cup
  (Thresholds.temperature.low - Margin)..(Thresholds.temperature.high + Margin)

\* the values on both sides of every comparison of the classifiers
EdgeHeartRates ==
  LET t == Thresholds.heart_rate
  IN {t.low - 1, t.low, t.high, t.high + 1, t.very_high, t.very_high + 1}

EdgeSystolics ==
  LET t == Thresholds.blood_pressure
  IN {t.elevated_systolic - 1, t.elevated_systolic, t.high_systolic_1 - 1,
      t.high_systolic_1, t.high_systolic_2 - 1, t.high_systolic_2}

EdgeDiastolics ==
  LET t == Thresholds.blood_pressure
  IN {t.high_diastolic_1 - 1, t.high_diastolic_1,
      t.high_diastolic_2 - 1, t.high_diastolic_2}

EdgeOxygens ==
  LET t == Thresholds.oxygen_level
  IN {t.low - 1, t.low, t.concerning - 1, t.concerning, t.normal - 1, t.normal}

EdgeTemperatures ==
  LET t == Thresholds.temperature
  IN {t.low - 1, t.low, t.normal_high, t.normal_high + 1,
      t.elevated, t.elevated + 1, t.high, t.high + 1}

\* the two readings of the documented scenarios
ConcernReading == Reading(130, 150, 95, 970, 368)

AllClearReading == Reading(75, 118, 76, 980, 367)

\* readings made of implausible values only
ImplausibleReadings ==
  {Reading(v, v, v, v, v) : v \in Implausible} \cup
  {Reading(h, s, s, o, o) : h \in Implausible, s \in Implausible, o \in Implausible}

LatestReadings ==
  {None, ConcernReading, AllClearReading} \cup ImplausibleReadings \cup
  {Reading(h, s, d, o, t) : h \in EdgeHeartRates, s \in EdgeSystolics,
     d \in EdgeDiastolics, o \in EdgeOxygens, t \in EdgeTemperatures}

WindowReadings ==
  {AllClearReading, ConcernReading, Reading(75, 118, 76, 900, 385)}

RECURSIVE SeqsUpTo(_, _)
SeqsUpTo(S, n) ==
  IF n = 0 THEN {<<>>}
  ELSE LET shorter == SeqsUpTo(S, n - 1)
       IN shorter \cup {Append(w, x) : w \in {v \in shorter : Len(v) = n - 1}, x \in S}

\* Windows built from breach counts.  k[1] of the n readings have high blood
\* pressure, k[2] a high heart rate, k[3] low oxygen and k[4] a high
\* temperature; the four kinds of breach are spread over different positions
\* of the window.  Every value sits next to the cut-point it is compared
\* with: a breaching reading is just across it, the others are on it (or,
\* every second heart rate, below the low cut-point).
BuiltReading(i, n, k) ==
  LET t == Thresholds
      bp_breach == (i % n) < k[1]
      hr_breach == ((i + 1) % n) < k[2]
      ox_breach == ((i + 2) % n) < k[3]
      temp_breach == ((i + 3) % n) < k[4]
      bp_sys == IF bp_breach /\ i % 3 # 1 THEN t.blood_pressure.high_systolic_1
                ELSE t.blood_pressure.high_systolic_1 - 1
      bp_dia == IF bp_breach /\ i % 3 # 0 THEN t.blood_pressure.high_diastolic_1
                ELSE t.blood_pressure.high_diastolic_1 - 1
      heart_rate == IF hr_breach THEN t.heart_rate.high + 1
                    ELSE IF i % 2 = 0 THEN t.heart_rate.high
                    ELSE t.heart_rate.low - 1
      oxygen == IF ox_breach THEN t.oxygen_level.concerning - 1
                ELSE t.oxygen_level.concerning
      temp == IF temp_breach THEN t.temperature.elevated + 1
              ELSE t.temperature.elevated
  IN Reading(heart_rate, bp_sys, bp_dia, oxygen, temp)

BuiltWindow(n, k) == [i \in 1..n |-> BuiltReading(i, n, k)]

\* the breach counts tried for a window of n readings: every count for up to
\* two of the rules, none or all of the readings for the others
BreachCounts(n) ==
  {k \in [1..4 -> 0..n] : Cardinality({x \in 1..4 : k[x] \notin {0, n}}) <= 2}

BuiltWindows ==
  UNION {{BuiltWindow(n, k) : k \in BreachCounts(n)} : n \in 1..LongWindow}

\* the windows of the documented scenarios: 6 of 10 and 4 of 10 readings
\* with systolic 150, and 5 readings all with oxygen 90.0
SystolicWindow(breaches) ==
  [i \in 1..10 |-> IF i <= breaches THEN Reading(75, 150, 76, 980, 367)
                                     ELSE AllClearReading]

LowOxygenWindow == [i \in 1..5 |-> Reading(75, 118, 76, 900, 367)]

ScenarioWindows == {SystolicWindow(6), SystolicWindow(4), LowOxygenWindow}

\* a reading with every metric on the last value its classifier does not
\* flag with Warning: heart rate 100 (Normal), 139/89 (Caution), oxygen 92.0
\* (Caution), temperature 38.0 (Caution)
CautionReading == Reading(100, 139, 89, 920, 380)

CautionWindows ==
  {[i \in 1..n |-> IF i = m THEN AllClearReading ELSE CautionReading] :
     n \in 1..MaxWindow, m \in 0..1}

\* the window as the store returns it: record ids counting up, one reading
\* a day
Stamped(window) ==
  [i \in 1..Len(window) |->
     <<i, 1, "2024-01-0" \o ToString(i) \o " 08:00:00", window[i][4], window[i][5],
       window[i][6], window[i][7], window[i][8]>>]

StampedWindows == {Stamped(w) : w \in SeqsUpTo(WindowReadings, MaxWindow)}

Windows ==
  SeqsUpTo(WindowReadings, MaxWindow) \cup BuiltWindows \cup ScenarioWindows
    \cup CautionWindows \cup StampedWindows

\* no HealthMonitorApp has been constructed: the analyzer is used on its own
NoApp ==
  [module |-> "none", current_user_id |-> NoUser, timers |-> 0, panel |-> "",
   last |-> [handler |-> "none", path |-> "", scheduled |-> FALSE,
             user_info |-> None, health_data |-> None],
   presses |-> 0]

\* no store is attached
NoStore == [user |-> None, latest |-> None, fails |-> "none"]

(***************************************************************************)
(* State machine.  Init is the analyzer after construction with one call   *)
(* pending: the operation and its arguments.  One action per operation     *)
(* runs the pending call to its return (or to the exception it raises) and *)
(* records the outcome and the classifier calls made on the way.           *)
(***************************************************************************)
Pending(o, a) ==
  /\ thresholds = Thresholds
  /\ pc = "called"
  /\ op = o
  /\ args = a
  /\ outcome = Return(None)
  /\ calls = <<>>
  /\ log = <<>>
  /\ frames = <<>>
  /\ app = NoApp
  /\ store = NoStore

Init ==
  \/ \E heart_rate \in HeartRates : Pending("analyze_heart_rate", <<heart_rate>>)
  \/ \E systolic \in Systolics, diastolic \in Diastolics :
       Pending("analyze_blood_pressure", <<systolic, diastolic>>)
  \/ \E oxygen \in Oxygens : Pending("analyze_oxygen_level", <<oxygen>>)
  \/ \E temp \in Temperatures : Pending("analyze_temperature", <<temp>>)
  \/ \E health_data \in LatestReadings :
       Pending("get_overall_health_status", <<health_data>>)
  \/ \E history \in Windows : Pending("predict_potential_conditions", <<history>>)
  \/ \E history \in Windows :
       Pending("database_manager.predict_potential_conditions", <<history>>)
  \/ \E hr \in HeartRates : Pending("part_000.analyze_heart_rate", <<hr>>)
  \/ \E health_data \in Windows :
       Pending("part_000.predict_potential_conditions", <<health_data>>)

\* a call that raises the very_high heart-rate cut-point on its way out
Finish_writing_thresholds(result, made) ==
  /\ pc' = "returned"
  /\ outcome' = result
  /\ calls' = made
  /\ log' = Append(log, [op |-> op, args |-> args, outcome |-> result])
  /\ thresholds' = [thresholds EXCEPT !.heart_rate.very_high = @ + 10]
  /\ UNCHANGED <<op, args, frames, app, store>>

\* the return of a call: no operation writes to self.thresholds.  log keeps
\* what every call made on the analyzer so far was given and gave back.
Finish(result, made) ==
  /\ pc' = "returned"
  /\ outcome' = result
  /\ calls' = made
  /\ log' = Append(log, [op |-> op, args |-> args, outcome |-> result])
  /\ UNCHANGED <<thresholds, op, args, frames, app, store>>

AnalyzeHeartRate ==
  /\ pc = "called" /\ op = "analyze_heart_rate"
  /\ Finish(Return(analyze_heart_rate(args[1])), <<"analyze_heart_rate">>)

AnalyzeBloodPressure ==
  /\ pc = "called" /\ op = "analyze_blood_pressure"
  /\ Finish(Return(analyze_blood_pressure(args[1], args[2])), <<"analyze_blood_pressure">>)

AnalyzeOxygenLevel ==
  /\ pc = "called" /\ op = "analyze_oxygen_level"
  /\ Finish(Return(analyze_oxygen_level(args[1])), <<"analyze_oxygen_level">>)

AnalyzeTemperature ==
  /\ pc = "called" /\ op = "analyze_temperature"
  /\ Finish(Return(analyze_temperature(args[1])), <<"analyze_temperature">>)

GetOverallHealthStatus ==
  /\ pc = "called" /\ op = "get_overall_health_status"
  /\ Finish(Return(get_overall_health_status(args[1])), overall_calls(args[1]))

\* the call served by the HealthAnalyzer class of database_manager.py
PredictPotentialConditions_other_class ==
  /\ pc = "called" /\ op = "predict_potential_conditions"
  /\ Finish(dm_predict_potential_conditions(args[1]), <<>>)

\* the call reading its history by popping the readings off the caller's list
PredictPotentialConditions_consuming ==
  /\ pc = "called" /\ op = "predict_potential_conditions"
  /\ pc' = "returned"
  /\ outcome' = predict_potential_conditions(args[1])
  /\ calls' = <<>>
  /\ log' = Append(log, [op |-> op, args |-> args, outcome |-> outcome'])
  /\ args' = <<<<>>>>
  /\ UNCHANGED <<thresholds, op, frames, app, store>>

PredictPotentialConditions ==
  /\ pc = "called" /\ op = "predict_potential_conditions"
  /\ Finish(predict_potential_conditions(args[1]), <<>>)

DmPredictPotentialConditions ==
  /\ pc = "called" /\ op = "database_manager.predict_potential_conditions"
  /\ Finish(dm_predict_potential_conditions(args[1]), <<>>)

\* the two operations as the HealthAnalyzer class of part_000 has them
P0AnalyzeHeartRate ==
  /\ pc = "called" /\ op = "part_000.analyze_heart_rate"
  /\ Finish(Return(p0_analyze_heart_rate(args[1])), <<>>)

P0PredictPotentialConditions ==
  /\ pc = "called" /\ op = "part_000.predict_potential_conditions"
  /\ Finish(p0_predict_potential_conditions(args[1]), <<>>)

Next ==
  \/ AnalyzeHeartRate
  \/ AnalyzeBloodPressure
  \/ AnalyzeOxygenLevel
  \/ AnalyzeTemperature
  \/ GetOverallHealthStatus
  \/ PredictPotentialConditions
  \/ DmPredictPotentialConditions
  \/ P0AnalyzeHeartRate
  \/ P0PredictPotentialConditions

Spec == Init /\ [][Next]_vars

(***************************************************************************)
(* A session: one analyzer, constructed once (as HealthMonitorApp does),   *)
(* on which the callers make up to MaxCalls calls one after the other.     *)
(***************************************************************************)
SessionCalls ==
  << <<"analyze_heart_rate", <<121>>>>,
     <<"analyze_blood_pressure", <<139, 89>>>>,
     <<"analyze_oxygen_level", <<920>>>>,
     <<"analyze_temperature", <<380>>>>,
     <<"get_overall_health_status", <<ConcernReading>>>>,
     <<"get_overall_health_status", <<AllClearReading>>>>,
     <<"get_overall_health_status", <<None>>>>,
     <<"predict_potential_conditions", <<<<>>>>>>,
     <<"predict_potential_conditions", <<LowOxygenWindow>>>>,
     <<"predict_potential_conditions", <<SystolicWindow(6)>>>>,
     <<"predict_potential_conditions", <<<<ConcernReading, AllClearReading>>>>>> >>

InitSession ==
  /\ thresholds = Thresholds
  /\ pc = "idle"
  /\ op = "__init__"
  /\ args = <<>>
  /\ outcome = Return(None)
  /\ calls = <<>>
  /\ log = <<>>
  /\ frames = <<>>
  /\ app = NoApp
  /\ store = NoStore

\* a caller invokes an operation of the analyzer
Invoke ==
  /\ pc \in {"idle", "returned"}
  /\ Len(log) < MaxCalls
  /\ \E c \in 1..Len(SessionCalls) :
       /\ op' = SessionCalls[c][1]
       /\ args' = SessionCalls[c][2]
  /\ pc' = "called"
  /\ outcome' = Return(None)
  /\ calls' = <<>>
  /\ UNCHANGED <<thresholds, log, frames, app, store>>

NextSession ==
  \/ Invoke
  \/ AnalyzeHeartRate
  \/ AnalyzeBloodPressure
  \/ AnalyzeOxygenLevel
  \/ AnalyzeTemperature
  \/ GetOverallHealthStatus
  \/ PredictPotentialConditions

SpecSession == InitSession /\ [][NextSession]_vars

(***************************************************************************)
(* The operations step by step.  Several invocations are in progress on    *)
(* one analyzer; each has a frame with its own arguments and locals, and   *)
(* all of them read the one thresholds table.  A step is what one          *)
(* invocation does between two points where another may run.               *)
(***************************************************************************)
Frame(o, a) ==
  [op |-> o, args |-> a, pc |-> "called", i |-> 0, acc |-> <<>>,
   examined |-> <<>>, outcome |-> Return(None)]

\* the invocations whose steps are interleaved with those of another
FirstCalls ==
  {<<"predict_potential_conditions", <<w>>>> :
     w \in SeqsUpTo(WindowReadings, MaxWindow) \cup ScenarioWindows} \cup
  {<<"get_overall_health_status", <<r>>>> :
     r \in {None, ConcernReading, AllClearReading, Reading(59, 139, 89, 919, 381)}} \cup
  {<<"analyze_heart_rate", <<121>>>>, <<"analyze_blood_pressure", <<139, 89>>>>,
   <<"analyze_oxygen_level", <<920>>>>, <<"analyze_temperature", <<380>>>>}

\* the other invocation: a status update or an analysis for another patient
SecondCalls ==
  {<<"get_overall_health_status", <<ConcernReading>>>>,
   <<"get_overall_health_status", <<None>>>>,
   <<"predict_potential_conditions", <<<<ConcernReading, AllClearReading>>>>>>,
   <<"analyze_heart_rate", <<59>>>>}

InitSteps ==
  /\ thresholds = Thresholds
  /\ pc = "idle"
  /\ op = "__init__"
  /\ args = <<>>
  /\ outcome = Return(None)
  /\ calls = <<>>
  /\ log = <<>>
  /\ app = NoApp
  /\ store = NoStore
  /\ \/ \E c \in FirstCalls : frames = <<Frame(c[1], c[2])>>
     \/ \E c \in FirstCalls, d \in SecondCalls :
          frames = <<Frame(c[1], c[2]), Frame(d[1], d[2])>>

\* some invocation other than f is between its first step and its return
OthersInProgress(f) ==
  \E g \in DOMAIN frames : g # f /\ frames[g].pc \notin {"called", "returned"}

\* frame f moves on; nothing else changes.  log keeps, for every invocation
\* that has returned, what it was given, what it gave back and whether
\* another invocation was in progress at that moment.
Advance(f, frame) ==
  /\ frames' = [frames EXCEPT ![f] = frame]
  /\ log' = IF frame.pc = "returned"
              THEN Append(log, [op |-> frame.op, args |-> frame.args,
                                outcome |-> frame.outcome,
                                overlapped |-> OthersInProgress(f)])
              ELSE log
  /\ UNCHANGED <<thresholds, pc, op, args, outcome, calls, app, store>>

\* one of the four classifiers: a chain of comparisons and a return
StepClassifier(f) ==
  LET fr == frames[f]
  IN /\ fr.pc = "called"
     /\ fr.op \in {"analyze_heart_rate", "analyze_blood_pressure",
                   "analyze_oxygen_level", "analyze_temperature"}
     /\ Advance(f, [fr EXCEPT
          !.pc = "returned",
          !.outcome = Return(
            CASE fr.op = "analyze_heart_rate" -> analyze_heart_rate(fr.args[1])
              [] fr.op = "analyze_blood_pressure" ->
                   analyze_blood_pressure(fr.args[1], fr.args[2])
              [] fr.op = "analyze_oxygen_level" -> analyze_oxygen_level(fr.args[1])
              [] fr.op = "analyze_temperature" -> analyze_temperature(fr.args[1]))])

\* get_overall_health_status: `if not health_data: return ...`
StepOverallGuard(f) ==
  LET fr == frames[f]
  IN /\ fr.pc = "called"
     /\ fr.op = "get_overall_health_status"
     /\ IF Not(fr.args[1])
          THEN Advance(f, [fr EXCEPT !.pc = "returned",
                 !.outcome = Return(<<"Unknown", "No health data available">>)])
          ELSE Advance(f, [fr EXCEPT !.pc = "classify", !.i = 1])

\* get_overall_health_status: the i-th of the four classifier calls
StepOverallClassify(f) ==
  LET fr == frames[f]
      health_data == fr.args[1]
      verdict ==
        CASE fr.i = 1 -> analyze_heart_rate(health_data[4])
          [] fr.i = 2 -> analyze_blood_pressure(health_data[5], health_data[6])
          [] fr.i = 3 -> analyze_oxygen_level(health_data[7])
          [] fr.i = 4 -> analyze_temperature(health_data[8])
  IN /\ fr.pc = "classify"
     /\ Advance(f, [fr EXCEPT !.acc = Append(@, verdict),
                              !.i = @ + 1,
                              !.pc = IF fr.i = 4 THEN "combine" ELSE "classify"])

\* get_overall_health_status: warnings, worst status, message, return
StepOverallCombine(f) ==
  LET fr == frames[f]
      hr == fr.acc[1]
      bp == fr.acc[2]
      ox == fr.acc[3]
      tmp == fr.acc[4]
  IN /\ fr.pc = "combine"
     /\ Advance(f, [fr EXCEPT
          !.pc = "returned",
          !.outcome = Return(<<worst_status(list_statuses(hr, bp, ox, tmp)),
                               make_overall_msg(collect_warnings(hr, bp, ox, tmp))>>)])

\* predict_potential_conditions: `if not health_data_history: return []`,
\* else the four counters are set to 0
StepPredictGuard(f) ==
  LET fr == frames[f]
  IN /\ fr.pc = "called"
     /\ fr.op = "predict_potential_conditions"
     /\ IF Not(fr.args[1])
          THEN Advance(f, [fr EXCEPT !.pc = "returned", !.outcome = Return(<<>>)])
          ELSE Advance(f, [fr EXCEPT !.pc = "loop", !.i = 1, !.acc = <<0, 0, 0, 0>>])

\* the loop taking every second reading only
StepPredictScan_skipping(f) ==
  LET fr == frames[f]
      record == fr.args[1][fr.i]
  IN /\ fr.pc = "loop"
     /\ fr.i <= Len(fr.args[1])
     /\ Advance(f, [fr EXCEPT
          !.acc = <<@[1] + (IF high_bp(record) THEN 1 ELSE 0),
                    @[2] + (IF high_hr(record) THEN 1 ELSE 0),
                    @[3] + (IF low_ox(record) THEN 1 ELSE 0),
                    @[4] + (IF high_temp(record) THEN 1 ELSE 0)>>,
          !.examined = Append(@, fr.i),
          !.i = @ + 2])

\* the loop with the four counters kept on the analyzer, where every
\* invocation in progress finds and updates them
StepPredictScan_shared_counters(f) ==
  LET fr == frames[f]
      record == fr.args[1][fr.i]
      counted == <<fr.acc[1] + (IF high_bp(record) THEN 1 ELSE 0),
                   fr.acc[2] + (IF high_hr(record) THEN 1 ELSE 0),
                   fr.acc[3] + (IF low_ox(record) THEN 1 ELSE 0),
                   fr.acc[4] + (IF high_temp(record) THEN 1 ELSE 0)>>
  IN /\ fr.pc = "loop"
     /\ fr.i <= Len(fr.args[1])
     /\ frames' = [g \in DOMAIN frames |->
          IF g = f
            THEN [fr EXCEPT !.acc = counted, !.examined = Append(@, fr.i), !.i = @ + 1]
          ELSE IF frames[g].pc = "loop" THEN [frames[g] EXCEPT !.acc = counted]
          ELSE frames[g]]
     /\ UNCHANGED <<thresholds, pc, op, args, outcome, calls, log, app, store>>

\* predict_potential_conditions: one pass of `for record in
\* health_data_history`, the four tests on the i-th reading
StepPredictScan(f) ==
  LET fr == frames[f]
      record == fr.args[1][fr.i]
  IN /\ fr.pc = "loop"
     /\ fr.i <= Len(fr.args[1])
     /\ Advance(f, [fr EXCEPT
          !.acc = <<@[1] + (IF high_bp(record) THEN 1 ELSE 0),
                    @[2] + (IF high_hr(record) THEN 1 ELSE 0),
                    @[3] + (IF low_ox(record) THEN 1 ELSE 0),
                    @[4] + (IF high_temp(record) THEN 1 ELSE 0)>>,
          !.examined = Append(@, fr.i),
          !.i = @ + 1])

\* predict_potential_conditions: the loop is over; percentages, rules, return
StepPredictCollect(f) ==
  LET fr == frames[f]
      total_readings == Len(fr.args[1])
  IN /\ fr.pc = "loop"
     /\ fr.i > Len(fr.args[1])
     /\ Advance(f, [fr EXCEPT
          !.pc = "returned",
          !.outcome =
            IF total_readings = 0 THEN Raise("ZeroDivisionError")
            ELSE Return(collect_conditions(fr.acc[1], fr.acc[2], fr.acc[3],
                                           fr.acc[4], total_readings))])

NextSteps ==
  \E f \in DOMAIN frames :
    \/ StepClassifier(f)
    \/ StepOverallGuard(f)
    \/ StepOverallClassify(f)
    \/ StepOverallCombine(f)
    \/ StepPredictGuard(f)
    \/ StepPredictScan(f)
    \/ StepPredictCollect(f)

\* the interpreter keeps running an invocation that has a step to take
SpecSteps == InitSteps /\ [][NextSteps]_vars /\ WF_vars(NextSteps)

(***************************************************************************)
(* HealthMonitorApp: the periodic update of the dashboard.  Two versions   *)
(* of the application are in the repository, main.py (with                 *)
(* database_manager.py and database_setup.py) and the single file          *)
(* part_000; app.module says which one runs.  store is what the database   *)
(* holds for the selected user: the row of the users table, the latest     *)
(* row of the health_data table, and which query, if any, fails with an    *)
(* sqlite3.Error.  app.timers is the number of update_data callbacks       *)
(* scheduled with root.after and not yet run.                              *)
(***************************************************************************)
Modules == {"main", "part_000"}

\* the row of the users table: 9 columns in database_setup.py, 6 in part_000
UserRow(module) ==
  IF module = "main"
    THEN <<1, "John Smith", 65, "Male", 1750, 820, "A+", "555-0101", "Dr. Adams">>
    ELSE <<1, "John Smith", 65, "Male", 1750, 820>>

\* a reading whose timestamp was stored from a datetime object: part_000
\* binds `base_time + timedelta(...)` itself, which sqlite3 writes with the
\* microseconds
FractionReading ==
  <<2, 1, "2024-01-01 12:00:00.123456", 75, 118, 76, 980, 367>>

\* the latest readings the store may hold.  database_setup.py and
\* add_health_data write strftime('%Y-%m-%d %H:%M:%S') timestamps.
StoreReadings(module) ==
  IF module = "main" THEN {None, ConcernReading, AllClearReading}
  ELSE {None, ConcernReading, AllClearReading, FractionReading}

Stores(module) ==
  [user : {None, UserRow(module)},
   latest : StoreReadings(module),
   fails : {"none", "get_user_info", "get_latest_health_data"}]

\* DatabaseManager.get_user_info
get_user_info(module, st) ==
  IF module = "main"
    THEN IF st.fails = "get_user_info" THEN Raise("sqlite3.Error")
         ELSE IF ~Not(st.user)
           THEN Return(<<st.user[1], st.user[2], st.user[3], st.user[4], st.user[5],
                         st.user[6], st.user[7], st.user[8], st.user[9]>>)
         ELSE Return(None)
    ELSE IF st.fails = "get_user_info" THEN Return(None)
         ELSE Return(st.user)

\* DatabaseManager.get_latest_health_data
get_latest_health_data(module, st) ==
  IF module = "main"
    THEN IF st.fails = "get_latest_health_data" THEN Raise("sqlite3.Error")
         ELSE Return(st.latest)
    ELSE IF st.fails = "get_latest_health_data" THEN Return(None)
         ELSE Return(st.latest)

Digits == {"0", "1", "2", "3", "4", "5", "6", "7", "8", "9"}

\* datetime.strptime(timestamp, '%Y-%m-%d %H:%M:%S') returns; it raises
\* ValueError on anything else, text left over after the seconds included
strptime_returns(timestamp) ==
  /\ Len(timestamp) = 19
  /\ \A k \in 1..19 :
       LET c == SubSeq(timestamp, k, k)
       IN IF k \in {5, 8} THEN c = "-"
          ELSE IF k = 11 THEN c = " "
          ELSE IF k \in {14, 17} THEN c = ":"
          ELSE c \in Digits

\* how a run of update_dashboard_data ended: by a return or by an exception
\* that leaves it, on which path, and what the health status panel shows
Ended(path, panel, user_info, health_data) ==
  [raised |-> FALSE, path |-> path, panel |-> panel,
   user_info |-> user_info, health_data |-> health_data]

Escaped(exception, panel, user_info, health_data) ==
  [raised |-> TRUE, path |-> exception, panel |-> panel,
   user_info |-> user_info, health_data |-> health_data]

\* update_dashboard_data of main.py
main_update_dashboard_data(current_user_id, st, panel) ==
  IF current_user_id = NoUser THEN Ended("no user", panel, None, None)
  ELSE
    LET user_info == get_user_info("main", st)
        health_data == get_latest_health_data("main", st)
    IN IF user_info.kind = "raise"
         THEN Ended("sqlite3.Error", panel, None, None)
       ELSE IF Not(user_info.value) \/ Len(user_info.value) # 6
         THEN Ended("incomplete user information", panel, user_info.value, None)
       ELSE IF health_data.kind = "raise"
         THEN Ended("sqlite3.Error", panel, user_info.value, None)
       ELSE IF Not(health_data.value)
         THEN Ended("no health data", panel, user_info.value, None)
       ELSE IF ~strptime_returns(health_data.value[3])
         THEN Escaped("ValueError", panel, user_info.value, health_data.value)
       ELSE Ended("updated", get_overall_health_status(health_data.value)[1],
                  user_info.value, health_data.value)

\* update_dashboard_data of part_000
p0_update_dashboard_data(current_user_id, st, panel) ==
  IF current_user_id = NoUser THEN Ended("no user", panel, None, None)
  ELSE
    LET user_info == get_user_info("part_000", st)
        health_data == get_latest_health_data("part_000", st)
    IN IF ~Not(user_info.value) /\ Len(user_info.value) # 6
         THEN Escaped("ValueError", panel, user_info.value, None)
       ELSE IF Not(health_data.value)
         THEN Ended("no health data", panel, user_info.value, None)
       ELSE IF ~strptime_returns(health_data.value[3])
         THEN Escaped("ValueError", panel, user_info.value, health_data.value)
       ELSE Ended("updated", p0_get_overall_health_status(health_data.value)[1],
                  user_info.value, health_data.value)

update_dashboard_data(module, current_user_id, st, panel) ==
  IF module = "main" THEN main_update_dashboard_data(current_user_id, st, panel)
  ELSE p0_update_dashboard_data(current_user_id, st, panel)

\* update_data: the dashboard update when a user is selected, then
\* root.after(10000, self.update_data).  An exception that leaves
\* update_dashboard_data leaves update_data too, before root.after.
update_data(a, st) ==
  LET ran == IF a.current_user_id # NoUser
               THEN update_dashboard_data(a.module, a.current_user_id, st, a.panel)
               ELSE Ended("no user selected", a.panel, None, None)
  IN [a EXCEPT !.panel = ran.panel,
               !.timers = IF ran.raised THEN @ ELSE @ + 1,
               !.last = [handler |-> "update_data", path |-> ran.path,
                         scheduled |-> ~ran.raised,
                         user_info |-> ran.user_info,
                         health_data |-> ran.health_data]]

\* __init__: load_users selects the first user, if there is one, and updates
\* the dashboard; then the first update_data is scheduled.  An exception
\* that leaves load_users leaves __init__: no application runs.
InitApp ==
  /\ thresholds = Thresholds
  /\ pc = "idle"
  /\ op = "__init__"
  /\ args = <<>>
  /\ outcome = Return(None)
  /\ calls = <<>>
  /\ log = <<>>
  /\ frames = <<>>
  /\ \E module \in Modules :
       \E st \in Stores(module) :
         LET user_id == IF Not(st.user) THEN NoUser ELSE st.user[1]
             ran == update_dashboard_data(module, user_id, st, "")
         IN /\ ~ran.raised
            /\ store = st
            /\ app = [module |-> module, current_user_id |-> user_id,
                      timers |-> 1, panel |-> ran.panel,
                      last |-> [handler |-> "__init__", path |-> ran.path,
                                scheduled |-> TRUE, user_info |-> ran.user_info,
                                health_data |-> ran.health_data],
                      presses |-> 0]

AppStep(a) ==
  /\ app' = a
  /\ UNCHANGED <<thresholds, pc, op, args, outcome, calls, log, frames, store>>

\* a scheduled update_data callback comes due and runs
Tick ==
  /\ app.timers > 0
  /\ AppStep(update_data([app EXCEPT !.timers = @ - 1], store))

\* the Refresh Data button: command=self.update_data
RefreshData ==
  /\ app.presses < MaxPresses
  /\ AppStep(update_data([app EXCEPT !.presses = @ + 1], store))

\* on_user_selected: the user of the dropdown is selected (again) and the
\* dashboard is updated
OnUserSelected ==
  /\ app.current_user_id # NoUser
  /\ LET ran == update_dashboard_data(app.module, app.current_user_id, store, app.panel)
     IN AppStep([app EXCEPT !.panel = ran.panel,
                   !.last = [handler |-> "on_user_selected", path |-> ran.path,
                             scheduled |-> FALSE, user_info |-> ran.user_info,
                             health_data |-> ran.health_data]])

\* another process writes to the database file, or a query starts or stops
\* failing
StoreChanges ==
  /\ \E st \in Stores(app.module) :
       /\ Cardinality({x \in {"user", "latest", "fails"} : st[x] # store[x]}) = 1
       /\ store' = st
  /\ UNCHANGED <<thresholds, pc, op, args, outcome, calls, log, frames, app>>

NextApp ==
  \/ Tick
  \/ RefreshData
  \/ OnUserSelected
  \/ StoreChanges

SpecApp == InitApp /\ [][NextApp]_vars

\* the call of operation o has returned
Returned(o) == pc = "returned" /\ op = o /\ outcome.kind = "return"

(***************************************************************************)
(* The severity order Normal < Caution < Warning < Danger                  *)
(***************************************************************************)
Severities == {"Normal", "Caution", "Warning", "Danger"}

Rank(severity) ==
  CASE severity = "Normal" -> 0
    [] severity = "Caution" -> 1
    [] severity = "Warning" -> 2
    [] severity = "Danger" -> 3

MaxSeverity(S) == CHOOSE s \in S : \A t \in S : Rank(t) <= Rank(s)

\* the four metric severities of a reading
MetricSeverities(health_data) ==
  {analyze_heart_rate(health_data[4])[1],
   analyze_blood_pressure(health_data[5], health_data[6])[1],
   analyze_oxygen_level(health_data[7])[1],
   analyze_temperature(health_data[8])[1]}

(***************************************************************************)
(* Claims                                                                  *)
(***************************************************************************)
\* C1: for every reading that is present, the severity returned by
\* get_overall_health_status is the maximum, under Normal < Caution < Warning
\* < Danger, of the severities the four classifiers return for that reading;
\* a reading with heart rate above 120 gets Danger whatever the rest is.
C1_OverallIsMaximum ==
  (Returned("get_overall_health_status") /\ ~Not(args[1])) =>
    /\ outcome.value[1] = MaxSeverity(MetricSeverities(args[1]))
    /\ (args[1][4] > 120 => outcome.value[1] = "Danger")

\* the scenario reading (130, 150/95, 97.0, 36.8) has been given Danger
C1_Witness ==
  /\ Returned("get_overall_health_status")
  /\ args[1] = ConcernReading
  /\ outcome.value[1] = "Danger"

\* C2: analyze_heart_rate returns Danger above 120, Normal from 60 to 100, and
\* Warning below 60 and from 101 to 120; 120 is Warning, 60 and 100 are Normal.
C2_HeartRateLadder ==
  Returned("analyze_heart_rate") =>
    LET h == args[1]
        severity == outcome.value[1]
    IN /\ (h > 120 => severity = "Danger")
       /\ (60 <= h /\ h <= 100 => severity = "Normal")
       /\ (h < 60 \/ (100 < h /\ h <= 120) => severity = "Warning")

\* a heart rate of exactly 120 has been classified Warning
C2_Witness ==
  /\ Returned("analyze_heart_rate")
  /\ args[1] = 120
  /\ outcome.value[1] = "Warning"

\* C3: for every pair (systolic, diastolic) the combined severity returned by
\* analyze_blood_pressure is the maximum, under Normal < Caution < Warning <
\* Danger, of the systolic severity and the diastolic severity.
C3_BloodPressureIsMaximum ==
  Returned("analyze_blood_pressure") =>
    outcome.value[1] =
      MaxSeverity({check_systolic(args[1])[1], check_diastolic(args[2])[1]})

\* an elevated (Caution) systolic value with a Normal diastolic value has been
\* combined to Caution
C3_Witness ==
  /\ Returned("analyze_blood_pressure")
  /\ check_systolic(args[1])[1] = "Caution"
  /\ check_diastolic(args[2])[1] = "Normal"
  /\ outcome.value[1] = "Caution"

\* the systolic ladder of the thresholds table of section 4.1
SystolicTier(systolic) ==
  IF systolic >= 180 THEN "Danger"
  ELSE IF systolic >= 140 THEN "Warning"
  ELSE IF systolic >= 130 THEN "Caution"
  ELSE "Normal"

\* the diastolic ladder of the thresholds table of section 4.1
DiastolicTier(diastolic) ==
  IF diastolic >= 120 THEN "Danger"
  ELSE IF diastolic >= 90 THEN "Warning"
  ELSE "Normal"

\* C4: analyze_blood_pressure classifies systolic on four tiers (Danger >= 180,
\* Warning >= 140, Caution >= 130, else Normal) and diastolic on three
\* (Danger >= 120, Warning >= 90, else Normal); the sub-message returned for
\* one value is the same whatever the other value is, and the diastolic
\* ladder never yields Caution.
C4_BloodPressureLadders ==
  Returned("analyze_blood_pressure") =>
    LET systolic == args[1]
        diastolic == args[2]
    IN /\ check_systolic(systolic)[1] = SystolicTier(systolic)
       /\ check_diastolic(diastolic)[1] = DiastolicTier(diastolic)
       /\ check_diastolic(diastolic)[1] # "Caution"
       /\ outcome.value[3] = check_systolic(systolic)[2]
       /\ outcome.value[4] = check_diastolic(diastolic)[2]
       /\ \A d \in Diastolics :
            analyze_blood_pressure(systolic, d)[3] = outcome.value[3]
       /\ \A sy \in Systolics :
            analyze_blood_pressure(sy, diastolic)[4] = outcome.value[4]

\* a pair just under the Warning cut-points (139/89) has been classified:
\* systolic Caution, diastolic Normal
C4_Witness ==
  /\ Returned("analyze_blood_pressure")
  /\ args = <<139, 89>>
  /\ outcome.value[3] = "Systolic pressure is elevated (139 mmHg)"
  /\ outcome.value[4] = "Diastolic pressure is normal (89 mmHg)"

\* C5: analyze_oxygen_level returns Danger below 90, Warning from 90 up to but
\* not including 92, Caution from 92 up to but not including 95, and Normal
\* from 95 (values in tenths of a percent).
C5_OxygenLadder ==
  Returned("analyze_oxygen_level") =>
    LET p == args[1]
        severity == outcome.value[1]
    IN /\ (p < 900 => severity = "Danger")
       /\ (900 <= p /\ p < 920 => severity = "Warning")
       /\ (920 <= p /\ p < 950 => severity = "Caution")
       /\ (p >= 950 => severity = "Normal")

\* an oxygen level of exactly 92.0 has been classified Caution
C5_Witness ==
  /\ Returned("analyze_oxygen_level")
  /\ args[1] = 920
  /\ outcome.value[1] = "Caution"

\* C6: analyze_temperature returns Danger above 39.0, Warning above 38.0 up to
\* 39.0 and below 36.1, Caution above 37.5 up to 38.0, and Normal from 36.1 to
\* 37.5 (values in tenths of a degree); each boundary value falls in the
\* lower tier.
C6_TemperatureLadder ==
  Returned("analyze_temperature") =>
    LET t == args[1]
        severity == outcome.value[1]
    IN /\ (t > 390 => severity = "Danger")
       /\ ((380 < t /\ t <= 390) \/ t < 361 => severity = "Warning")
       /\ (375 < t /\ t <= 380 => severity = "Caution")
       /\ (361 <= t /\ t <= 375 => severity = "Normal")

\* a temperature of exactly 36.1 has been classified Normal
C6_Witness ==
  /\ Returned("analyze_temperature")
  /\ args[1] = 361
  /\ outcome.value[1] = "Normal"

\* sub occurs in the string s
Contains(s, sub) ==
  \E i \in 1..(Len(s) - Len(sub) + 1) : SubSeq(s, i, i + Len(sub) - 1) = sub

\* the four metric verdicts of a reading, in the order heart rate, blood
\* pressure, oxygen, temperature, each as (severity, message)
MetricVerdicts(health_data) ==
  LET hr == analyze_heart_rate(health_data[4])
      bp == analyze_blood_pressure(health_data[5], health_data[6])
      ox == analyze_oxygen_level(health_data[7])
      tmp == analyze_temperature(health_data[8])
  IN <<<<hr[1], hr[2]>>, <<bp[1], bp[2]>>, <<ox[1], ox[2]>>, <<tmp[1], tmp[2]>>>>

IsNotNormal(verdict) == verdict[1] # "Normal"

\* C7: without a reading get_overall_health_status returns (Unknown, "No
\* health data available") and calls no classifier; with a reading the
\* severity it returns is one of Normal, Caution, Warning, Danger.
C7_UnknownOnlyWithoutReading ==
  (pc = "returned" /\ op = "get_overall_health_status") =>
    /\ outcome.kind = "return"
    /\ Not(args[1]) =>
         /\ outcome.value = <<"Unknown", "No health data available">>
         /\ calls = <<>>
    /\ ~Not(args[1]) =>
         /\ outcome.value[1] \in Severities
         /\ outcome.value[1] # "Unknown"

\* the call without a reading has returned Unknown
C7_Witness ==
  /\ Returned("get_overall_health_status")
  /\ args[1] = None
  /\ outcome.value[1] = "Unknown"
  /\ calls = <<>>

\* C8: for a reading with at least one metric that is not Normal, the overall
\* message is the messages of exactly the metrics that are not Normal, in the
\* order heart rate, blood pressure, oxygen, temperature, joined by "; "
\* (after the fixed lead-in); the message of a Normal metric occurs nowhere
\* in it.
C8_MessageListsConcerns ==
  (Returned("get_overall_health_status") /\ ~Not(args[1])) =>
    LET verdicts == MetricVerdicts(args[1])
        flagged == SelectSeq(verdicts, IsNotNormal)
        msg == outcome.value[2]
    IN Len(flagged) > 0 =>
         /\ msg = "Health concerns: "
                    \o Join([i \in 1..Len(flagged) |-> flagged[i][2]], "; ")
         /\ \A i \in 1..4 :
              Contains(msg, verdicts[i][2]) <=> verdicts[i][1] # "Normal"

\* the scenario reading has been reported with its heart-rate and blood-
\* pressure messages, in that order, and nothing else
C8_Witness ==
  /\ Returned("get_overall_health_status")
  /\ args[1] = ConcernReading
  /\ outcome.value[2] =
       "Health concerns: Heart rate is very high (130 BPM); BP: 150/95 mmHg"

AllClearMessage == "All health metrics are within normal ranges"

\* C9: get_overall_health_status returns the all-clear message exactly when
\* all four metric severities are Normal, which is exactly when the overall
\* severity is Normal.
C9_AllClearIffNormal ==
  (Returned("get_overall_health_status") /\ ~Not(args[1])) =>
    LET allNormal == MetricSeverities(args[1]) = {"Normal"}
    IN /\ (outcome.value[2] = AllClearMessage) <=> allNormal
       /\ allNormal <=> (outcome.value[1] = "Normal")

\* the all-normal scenario reading (75, 118/76, 98.0, 36.7) has been given
\* Normal and the all-clear message
C9_Witness ==
  /\ Returned("get_overall_health_status")
  /\ args[1] = AllClearReading
  /\ outcome.value = <<"Normal", AllClearMessage>>

\* C10: on an empty sequence of readings predict_potential_conditions returns
\* the empty list and raises nothing.
C10_EmptyHistory ==
  (pc = "returned" /\ op = "predict_potential_conditions" /\ Not(args[1])) =>
    outcome = Return(<<>>)

\* the call on the empty history has returned
C10_Witness ==
  /\ Returned("predict_potential_conditions")
  /\ args[1] = <<>>
  /\ outcome.value = <<>>

(***************************************************************************)
(* The rule table of section 4.2                                           *)
(***************************************************************************)
RuleNames ==
  <<"Hypertension Risk", "Tachycardia Tendency", "Respiratory Concern",
    "Recurring Fever">>

\* activation threshold of each rule, in percent of the readings
RuleLimits == <<50, 40, 30, 20>>

\* the breach condition of rule x on one reading (oxygen and temperature in
\* tenths)
Breaches(x, record) ==
  CASE x = 1 -> record[5] >= 140 \/ record[6] >= 90
    [] x = 2 -> record[4] > 100
    [] x = 3 -> record[7] < 920
    [] x = 4 -> record[8] > 380

\* the number of readings of the window that breach rule x, each counted once
BreachCount(x, window) ==
  Cardinality({i \in 1..Len(window) : Breaches(x, window[i])})

\* the list of predictions holds one for the named condition
Emitted(condition, predictions) ==
  \E i \in 1..Len(predictions) : predictions[i].condition = condition

\* a call of predict_potential_conditions on a non-empty window has returned
Predicted ==
  Returned("predict_potential_conditions") /\ ~Not(args[1])

\* rule x is emitted exactly when its breach count reaches its share of the
\* window
RuleFollowed(x) ==
  Predicted =>
    (Emitted(RuleNames[x], outcome.value)
       <=> 100 * BreachCount(x, args[1]) >= RuleLimits[x] * Len(args[1]))

\* C11: for a non-empty window of n readings, Hypertension Risk is emitted if
\* and only if the number k of readings with systolic >= 140 or diastolic >=
\* 90 (a reading breaching on both counted once) has 100*k >= 50*n; 5 of 10
\* and 6 of 10 fire, 4 of 10 does not.
C11_HypertensionRule ==
  /\ RuleFollowed(1)
  /\ (Predicted /\ Len(args[1]) = 10) =>
       /\ BreachCount(1, args[1]) \in {5, 6} =>
            Emitted("Hypertension Risk", outcome.value)
       /\ BreachCount(1, args[1]) = 4 =>
            ~Emitted("Hypertension Risk", outcome.value)

\* a window of 10 readings, 5 of them with high blood pressure and one of
\* these high on both values, has been given Hypertension Risk
C11_Witness ==
  /\ Predicted
  /\ Len(args[1]) = 10
  /\ BreachCount(1, args[1]) = 5
  /\ \E i \in 1..10 : args[1][i][5] >= 140 /\ args[1][i][6] >= 90
  /\ Emitted("Hypertension Risk", outcome.value)

\* C12: for a non-empty window of n readings, Tachycardia Tendency is emitted
\* if and only if the number k of readings with heart rate > 100 has
\* 100*k >= 40*n; a heart rate of exactly 100 is not a breach.
C12_TachycardiaRule ==
  /\ RuleFollowed(2)
  /\ (Predicted /\ \A i \in 1..Len(args[1]) : args[1][i][4] <= 100) =>
       ~Emitted("Tachycardia Tendency", outcome.value)

\* a window with exactly 40 % of its heart rates above 100, and one of
\* exactly 100 among the others, has been given Tachycardia Tendency
C12_Witness ==
  /\ Predicted
  /\ 100 * BreachCount(2, args[1]) = 40 * Len(args[1])
  /\ \E i \in 1..Len(args[1]) : args[1][i][4] = 100
  /\ Emitted("Tachycardia Tendency", outcome.value)

\* C13: for a non-empty window of n readings, Respiratory Concern is emitted
\* if and only if the number k of readings with oxygen < 92 has
\* 100*k >= 30*n; 5 readings all with oxygen 90 give it with confidence
\* "100.0%".
C13_RespiratoryRule ==
  /\ RuleFollowed(3)
  /\ (Predicted /\ args[1] = LowOxygenWindow) =>
       \E i \in 1..Len(outcome.value) :
         /\ outcome.value[i].condition = "Respiratory Concern"
         /\ outcome.value[i].confidence = "100.0%"

\* the window of 5 readings with oxygen 90.0 has been given Respiratory
\* Concern
C13_Witness ==
  /\ Predicted
  /\ args[1] = LowOxygenWindow
  /\ Emitted("Respiratory Concern", outcome.value)

\* C14: for a non-empty window of n readings, Recurring Fever is emitted if
\* and only if the number k of readings with temperature > 38.0 has
\* 100*k >= 20*n; a temperature of exactly 38.0 is not a breach.
C14_FeverRule ==
  /\ RuleFollowed(4)
  /\ (Predicted /\ \A i \in 1..Len(args[1]) : args[1][i][8] <= 380) =>
       ~Emitted("Recurring Fever", outcome.value)

\* a window with exactly 20 % of its temperatures above 38.0, the others
\* being exactly 38.0, has been given Recurring Fever
C14_Witness ==
  /\ Predicted
  /\ 100 * BreachCount(4, args[1]) = 20 * Len(args[1])
  /\ \E i \in 1..Len(args[1]) : args[1][i][8] = 380
  /\ Emitted("Recurring Fever", outcome.value)

\* the index of a condition in the rule table (0 when it is not in it)
RuleIndex(condition) ==
  IF \E x \in 1..4 : RuleNames[x] = condition
    THEN CHOOSE x \in 1..4 : RuleNames[x] = condition
    ELSE 0

\* text is k out of n as a percentage with one decimal and a percent sign:
\* digits, a point, one digit, "%", the number in tenths being a nearest one
\* to 1000*k/n
RendersShare(text, k, n) ==
  \E t \in {(1000 * k) \div n, (1000 * k) \div n + 1} :
    /\ 2 * (t * n - 1000 * k) <= n
    /\ 2 * (1000 * k - t * n) <= n
    /\ text = ToString(t \div 10) \o "." \o ToString(t % 10) \o "%"

\* C15: the confidence of every emitted prediction is the breach count of its
\* rule divided by the number of readings of the whole window, times 100,
\* with exactly one decimal and a percent sign; 6 of 10 gives "60.0%" and 5
\* of 5 gives "100.0%".
C15_Confidence ==
  Predicted =>
    \A i \in 1..Len(outcome.value) :
      LET x == RuleIndex(outcome.value[i].condition)
          k == BreachCount(x, args[1])
          n == Len(args[1])
      IN /\ x # 0
         /\ RendersShare(outcome.value[i].confidence, k, n)
         /\ (k = 6 /\ n = 10) => outcome.value[i].confidence = "60.0%"
         /\ (k = 5 /\ n = 5) => outcome.value[i].confidence = "100.0%"

\* the window of 10 readings of which 6 have systolic 150 has been given
\* Hypertension Risk with confidence "60.0%"
C15_Witness ==
  /\ Predicted
  /\ args[1] = SystolicWindow(6)
  /\ Len(outcome.value) = 1
  /\ outcome.value[1].condition = "Hypertension Risk"
  /\ outcome.value[1].confidence = "60.0%"

\* the condition names of a list of predictions, in list order
ConditionNames(predictions) ==
  [i \in 1..Len(predictions) |-> predictions[i].condition]

NoRepeats(names) ==
  \A i, j \in 1..Len(names) : i # j => names[i] # names[j]

FourConditions == {RuleNames[x] : x \in 1..4}

\* the predictions are for the four conditions of the rule table, each at
\* most once
OnlyTheFour(predictions) ==
  /\ \A i \in 1..Len(predictions) : predictions[i].condition \in FourConditions
  /\ NoRepeats(ConditionNames(predictions))
  /\ Len(predictions) <= 4

\* C16 as stated: for both analyzers every prediction is for one of
\* Hypertension Risk, Tachycardia Tendency, Respiratory Concern, Recurring
\* Fever, each at most once, so at most four are returned and no other
\* condition (such as one for a low heart rate) is ever emitted.
C16_OnlyFourInBothAnalyzers ==
  /\ Returned("predict_potential_conditions") => OnlyTheFour(outcome.value)
  /\ Returned("database_manager.predict_potential_conditions") =>
       OnlyTheFour(outcome.value)

\* C16 (amended): the HealthAnalyzer of health_analyzer.py returns
\* predictions for the four conditions only, each at most once, so at most
\* four; the HealthAnalyzer of database_manager.py has a fifth rule,
\* Bradycardia Tendency, and returns predictions for those five conditions
\* only, each at most once, so at most five.
C16_KnownConditions ==
  /\ Returned("predict_potential_conditions") => OnlyTheFour(outcome.value)
  /\ Returned("database_manager.predict_potential_conditions") =>
       /\ \A i \in 1..Len(outcome.value) :
            outcome.value[i].condition \in FourConditions \cup {"Bradycardia Tendency"}
       /\ NoRepeats(ConditionNames(outcome.value))
       /\ Len(outcome.value) <= 5

\* the analyzer of database_manager.py has returned five predictions
C16_Witness ==
  /\ Returned("database_manager.predict_potential_conditions")
  /\ Len(outcome.value) = 5
  /\ Emitted("Bradycardia Tendency", outcome.value)

\* the window read from its last reading to its first
Reversed(window) == [i \in 1..Len(window) |-> window[Len(window) + 1 - i]]

\* C17: the predictions come in the order Hypertension Risk, Tachycardia
\* Tendency, Respiratory Concern, Recurring Fever, whatever the confidences
\* are and whatever the order of the readings is.
C17_RuleTableOrder ==
  Predicted =>
    /\ \A i, j \in 1..Len(outcome.value) :
         i < j => RuleIndex(outcome.value[i].condition)
                    < RuleIndex(outcome.value[j].condition)
    /\ ConditionNames(predict_potential_conditions(Reversed(args[1])).value)
         = ConditionNames(outcome.value)

\* Hypertension Risk has been listed in front of a condition that more
\* readings of the window breach
C17_Witness ==
  /\ Predicted
  /\ Len(outcome.value) >= 2
  /\ outcome.value[1].condition = "Hypertension Risk"
  /\ \E j \in 2..Len(outcome.value) :
       BreachCount(RuleIndex(outcome.value[j].condition), args[1])
         > BreachCount(1, args[1])

\* the rules that fired, as a set of indices of the rule table
Fired(predictions) == {x \in 1..4 : Emitted(RuleNames[x], predictions)}

\* the window with everything but the metric of rule x replaced by the
\* values of the reading base
Isolated(x, window, base) ==
  [i \in 1..Len(window) |->
     Reading(IF x = 2 THEN window[i][4] ELSE base[4],
             IF x = 1 THEN window[i][5] ELSE base[5],
             IF x = 1 THEN window[i][6] ELSE base[6],
             IF x = 3 THEN window[i][7] ELSE base[7],
             IF x = 4 THEN window[i][8] ELSE base[8])]

\* a reading that breaches no rule and one that breaches all four
NoBreachReading == AllClearReading

AllBreachReading == Reading(130, 150, 95, 900, 385)

\* the 16 windows of one reading, one for each set of breached rules
OneReadingWindows == {BuiltWindow(1, k) : k \in [1..4 -> {0, 1}]}

\* C18: whether a rule fires depends only on the values of its own metric in
\* the window (the other metrics may be replaced by values that breach
\* nothing or by values that breach everything), and each of the 16 subsets
\* of the four conditions is exactly what some window yields.
C18_RulesIndependent ==
  /\ Predicted =>
       \A x \in 1..4 :
         \A base \in {NoBreachReading, AllBreachReading} :
           (x \in Fired(outcome.value)) <=>
             (x \in Fired(predict_potential_conditions(Isolated(x, args[1], base)).value))
  /\ (Predicted /\ Len(args[1]) = 1) =>
       \A S \in SUBSET (1..4) :
         \E window \in OneReadingWindows :
           Fired(predict_potential_conditions(window).value) = S

\* a window has been given Tachycardia Tendency and Recurring Fever and
\* nothing else, although some of its readings have high blood pressure
C18_Witness ==
  /\ Predicted
  /\ Fired(outcome.value) = {2, 4}
  /\ BreachCount(1, args[1]) > 0

\* a value no patient has
IsImplausible(v) == v <= 0 \/ v >= 1000000

\* C19: the classifiers and get_overall_health_status validate nothing and
\* raise nothing: for every integer input, negative and very large ones
\* included, each returns a severity of its ladder, found by the same
\* comparisons as for any other value (a negative heart rate is below 60, so
\* Warning).
C19_NoValidation ==
  /\ (pc = "returned" /\ op \in {"analyze_heart_rate", "analyze_blood_pressure",
         "analyze_oxygen_level", "analyze_temperature", "get_overall_health_status"})
       => outcome.kind = "return"
  /\ Returned("analyze_heart_rate") =>
       /\ outcome.value[1] \in {"Normal", "Warning", "Danger"}
       /\ args[1] < 60 => outcome.value[1] = "Warning"
       /\ args[1] > 120 => outcome.value[1] = "Danger"
  /\ Returned("analyze_blood_pressure") =>
       /\ outcome.value[1] \in Severities
       /\ (args[1] < 130 /\ args[2] < 90) => outcome.value[1] = "Normal"
       /\ (args[1] >= 180 \/ args[2] >= 120) => outcome.value[1] = "Danger"
  /\ Returned("analyze_oxygen_level") =>
       /\ outcome.value[1] \in Severities
       /\ args[1] < 900 => outcome.value[1] = "Danger"
       /\ args[1] >= 950 => outcome.value[1] = "Normal"
  /\ Returned("analyze_temperature") =>
       /\ outcome.value[1] \in Severities
       /\ args[1] < 361 => outcome.value[1] = "Warning"
       /\ args[1] > 390 => outcome.value[1] = "Danger"
  /\ (Returned("get_overall_health_status") /\ ~Not(args[1])) =>
       /\ outcome.value[1] \in Severities
       /\ (args[1][4] < 60 /\ outcome.value[1] # "Danger") =>
            outcome.value[1] = "Warning"

\* a negative heart rate has been classified Warning
C19_Witness ==
  /\ Returned("analyze_heart_rate")
  /\ args[1] < 0
  /\ IsImplausible(args[1])
  /\ outcome.value[1] = "Warning"

\* C20: get_overall_health_status and predict_potential_conditions are
\* deterministic: two calls with the same reading (or the same sequence of
\* readings) on the same analyzer, whatever calls were made in between,
\* return the same result.
C20_Deterministic ==
  \A i, j \in 1..Len(log) :
    (/\ log[i].op \in {"get_overall_health_status", "predict_potential_conditions"}
     /\ log[i].op = log[j].op
     /\ log[i].args = log[j].args)
      => log[i].outcome = log[j].outcome

\* the same reading has been assessed twice with another call in between,
\* and got the same result
C20_Witness ==
  /\ Len(log) = 3
  /\ log[1].op = "get_overall_health_status"
  /\ log[3].op = "get_overall_health_status"
  /\ log[2].op = "analyze_heart_rate"
  /\ log[1].args = <<ConcernReading>>
  /\ log[3].args = <<ConcernReading>>
  /\ log[1].outcome = log[3].outcome

\* C21: no operation of HealthAnalyzer (the four classifiers,
\* get_overall_health_status, predict_potential_conditions) changes the
\* thresholds table set up at construction, the only attribute the analyzer
\* has, and none changes the reading or the sequence of readings it was
\* given.
C21_NoSideEffects ==
  [][(pc = "called" /\ pc' = "returned") =>
       /\ thresholds' = thresholds
       /\ thresholds' = Thresholds
       /\ args' = args
       /\ op' = op]_vars

\* predict_potential_conditions has returned four predictions for a window
\* of the longest size, and the table and the window are as they were when
\* it was called
C21_Witness ==
  /\ Returned("predict_potential_conditions")
  /\ Len(args[1]) = LongWindow
  /\ Len(outcome.value) = 4
  /\ thresholds = Thresholds
  /\ log[Len(log)].args = args

\* what an invocation returns when it runs alone, from call to return with
\* nothing in between
RunAlone(o, a) ==
  CASE o = "analyze_heart_rate" -> Return(analyze_heart_rate(a[1]))
    [] o = "analyze_blood_pressure" -> Return(analyze_blood_pressure(a[1], a[2]))
    [] o = "analyze_oxygen_level" -> Return(analyze_oxygen_level(a[1]))
    [] o = "analyze_temperature" -> Return(analyze_temperature(a[1]))
    [] o = "get_overall_health_status" -> Return(get_overall_health_status(a[1]))
    [] o = "predict_potential_conditions" -> predict_potential_conditions(a[1])

\* C22: when the steps of two invocations on the same HealthAnalyzer are
\* interleaved in any way, each invocation returns what it returns when run
\* alone on its own arguments, and the thresholds table they both read stays
\* as constructed.
C22_InterleavingIndependent ==
  /\ thresholds = Thresholds
  /\ \A f \in DOMAIN frames :
       frames[f].pc = "returned" =>
         frames[f].outcome = RunAlone(frames[f].op, frames[f].args)
  /\ \A k \in 1..Len(log) : log[k].outcome = RunAlone(log[k].op, log[k].args)

\* an analysis of a window of three readings and a status update for another
\* reading have both returned, the analysis first, while the status update
\* was in progress
C22_Witness ==
  /\ Len(frames) = 2
  /\ Len(log) = 2
  /\ log[1].op = "predict_potential_conditions"
  /\ Len(log[1].args[1]) = 3
  /\ Len(log[1].outcome.value) > 0
  /\ log[1].overlapped
  /\ log[2].op = "get_overall_health_status"
  /\ log[2].outcome.value[1] = "Danger"

\* the positions 1..n in order
Positions(n) == [i \in 1..n |-> i]

\* C25: predict_potential_conditions terminates for every finite sequence of
\* readings, and when it returns for a non-empty window it has examined each
\* reading of the window exactly once (the readings 1..n, in order); while
\* it is in its loop it has examined the readings before the current one
\* once each.
C25_PredictTerminates ==
  /\ [](\A f \in DOMAIN frames :
          frames[f].op = "predict_potential_conditions" =>
            /\ (frames[f].pc = "returned" /\ ~Not(frames[f].args[1])) =>
                 frames[f].examined = Positions(Len(frames[f].args[1]))
            /\ frames[f].pc = "loop" =>
                 frames[f].examined = Positions(frames[f].i - 1))
  /\ <>(\A f \in DOMAIN frames :
          frames[f].op = "predict_potential_conditions" =>
            frames[f].pc = "returned")

\* the analysis of the window of 10 readings has returned, having examined
\* the readings 1 to 10
C25_Witness ==
  /\ frames[1].op = "predict_potential_conditions"
  /\ frames[1].args[1] = SystolicWindow(6)
  /\ frames[1].pc = "returned"
  /\ frames[1].examined = <<1, 2, 3, 4, 5, 6, 7, 8, 9, 10>>
  /\ frames[1].outcome.kind = "return"

\* the wording of a blood-pressure tier in a sub-message
TierWording(tier) ==
  CASE tier = "Danger" -> "very high"
    [] tier = "Warning" -> "high"
    [] tier = "Caution" -> "elevated"
    [] tier = "Normal" -> "normal"

\* the sub-message for one of the two values: its name, the wording of its
\* tier and the value
SubMessage(which, tier, value) ==
  which \o " pressure is " \o TierWording(tier) \o " (" \o ToString(value) \o " mmHg)"

\* C23: analyze_blood_pressure always returns four things: the combined
\* severity, the combined message, one systolic sub-message and one diastolic
\* sub-message, also when both values are Normal; the systolic sub-message
\* is made of the systolic tier and value alone, the diastolic one of the
\* diastolic tier and value alone.
C23_TwoSubMessages ==
  (pc = "returned" /\ op = "analyze_blood_pressure") =>
    /\ outcome.kind = "return"
    /\ Len(outcome.value) = 4
    /\ outcome.value[1] \in Severities
    /\ outcome.value[2] = "BP: " \o ToString(args[1]) \o "/" \o ToString(args[2]) \o " mmHg"
    /\ outcome.value[3] = SubMessage("Systolic", SystolicTier(args[1]), args[1])
    /\ outcome.value[4] = SubMessage("Diastolic", DiastolicTier(args[2]), args[2])

\* a pair with both values Normal (128/88) has been given both sub-messages
C23_Witness ==
  /\ Returned("analyze_blood_pressure")
  /\ args = <<128, 88>>
  /\ outcome.value[1] = "Normal"
  /\ outcome.value[3] = "Systolic pressure is normal (128 mmHg)"
  /\ outcome.value[4] = "Diastolic pressure is normal (88 mmHg)"

\* C24 as stated: for every heart rate that is not Normal, the message of the
\* heart-rate classifier (of health_analyzer.py and of part_000) embeds both
\* the numeric value and the name of the condition, Tachycardia above 100
\* and Bradycardia below 60.
C24_ValueAndCondition ==
  (\/ Returned("analyze_heart_rate")
   \/ Returned("part_000.analyze_heart_rate")) =>
    (outcome.value[1] # "Normal" =>
       /\ Contains(outcome.value[2], ToString(args[1]))
       /\ args[1] > 100 => Contains(outcome.value[2], "Tachycardia")
       /\ args[1] < 60 => Contains(outcome.value[2], "Bradycardia"))

\* C24 (amended): the message of analyze_heart_rate of health_analyzer.py
\* embeds the numeric value, as "(<value> BPM)", and the wording of the tier
\* (low below 60, elevated from 101 to 120, very high above 120, normal
\* otherwise), and names no condition; the message of analyze_heart_rate of
\* part_000 names the condition (Bradycardia below 60, Tachycardia above
\* 100) and does not embed the value.
C24_ValueOrCondition ==
  /\ Returned("analyze_heart_rate") =>
       LET h == args[1]
           msg == outcome.value[2]
           wording == IF h < 60 THEN "low"
                      ELSE IF h > 120 THEN "very high"
                      ELSE IF h > 100 THEN "elevated"
                      ELSE "normal"
       IN /\ msg = "Heart rate is " \o wording \o " (" \o ToString(h) \o " BPM)"
          /\ ~Contains(msg, "Tachycardia")
          /\ ~Contains(msg, "Bradycardia")
  /\ Returned("part_000.analyze_heart_rate") =>
       LET h == args[1]
           msg == outcome.value[2]
       IN /\ h < 60 => msg = "Low heart rate (Bradycardia)"
          /\ h > 100 => msg = "High heart rate (Tachycardia)"
          /\ ~Contains(msg, ToString(h))

\* a heart rate of 121 has been reported by health_analyzer.py with its
\* value and by no condition name
C24_Witness ==
  /\ Returned("analyze_heart_rate")
  /\ args[1] = 121
  /\ outcome.value = <<"Danger", "Heart rate is very high (121 BPM)">>

\* a run of update_data (from a timer or from the Refresh Data button) that
\* shows in the state of the application
UpdateDataRuns ==
  /\ app' # app
  /\ app'.last.handler = "update_data"
  /\ store' = store

\* C26: whenever the periodic dashboard update of HealthMonitorApp (main.py)
\* runs with a selected user for whom the store returns user information
\* and a latest reading, it classifies that reading and passes the overall
\* status returned by get_overall_health_status to the health status panel;
\* the update is not abandoned before the classification.
C26_DashboardShowsOverallStatus ==
  [][(/\ UpdateDataRuns
      /\ app.module = "main"
      /\ app.current_user_id # NoUser
      /\ store.fails = "none"
      /\ ~Not(store.user)
      /\ ~Not(store.latest))
     => /\ app'.last.path = "updated"
        /\ app'.last.health_data = store.latest
        /\ app'.panel = get_overall_health_status(store.latest)[1]]_vars

\* C27: the polling loop never stops: after every run of update_data,
\* whether no user is selected, the dashboard update returns early or the
\* dashboard update fails with an error, a next run of update_data has been
\* scheduled and is pending.
C27_PollingNeverStops ==
  (app.last.handler = "update_data") =>
    /\ app.last.scheduled
    /\ app.timers >= 1

\* C28: at every moment at most one update_data callback is pending, after
\* any sequence of timer ticks and presses of the Refresh Data button.
C28_OneTimerPending ==
  (app.module \in Modules) => app.timers <= 1

Flagged == {"Warning", "Danger"}

\* the severity the classifier of rule x's metric gives the reading
ClassifierSeverity(x, record) ==
  CASE x = 1 -> analyze_blood_pressure(record[5], record[6])[1]
    [] x = 2 -> analyze_heart_rate(record[4])[1]
    [] x = 3 -> analyze_oxygen_level(record[7])[1]
    [] x = 4 -> analyze_temperature(record[8])[1]

\* the number of readings of the window that the classifier of rule x's
\* metric gives Warning or Danger
FlaggedCount(x, window) ==
  Cardinality({i \in 1..Len(window) : ClassifierSeverity(x, window[i]) \in Flagged})

\* rule x of the rule table fires for the window made of this one reading
CountsToward(x, record) ==
  Emitted(RuleNames[x], predict_potential_conditions(<<record>>).value)

\* C29: the breach rules of predict_potential_conditions agree with the
\* classifiers.  A reading counts toward Hypertension Risk exactly when
\* analyze_blood_pressure gives it Warning or Danger, and toward Respiratory
\* Concern exactly when analyze_oxygen_level does; a reading that counts
\* toward Tachycardia Tendency or Recurring Fever is given Warning or Danger
\* by analyze_heart_rate or analyze_temperature.  So Hypertension Risk and
\* Respiratory Concern are emitted exactly when the flagged readings reach
\* the rule's share of the window, and a window whose readings all have
\* overall severity Normal or Caution yields no prediction.
C29_RulesAgreeWithClassifiers ==
  /\ (Returned("get_overall_health_status") /\ ~Not(args[1])) =>
       /\ \A x \in {1, 3} :
            CountsToward(x, args[1]) <=> ClassifierSeverity(x, args[1]) \in Flagged
       /\ \A x \in {2, 4} :
            CountsToward(x, args[1]) => ClassifierSeverity(x, args[1]) \in Flagged
       /\ outcome.value[1] \in {"Normal", "Caution"} =>
            \A x \in 1..4 : ~CountsToward(x, args[1])
  /\ Predicted =>
       /\ \A x \in {1, 3} :
            Emitted(RuleNames[x], outcome.value)
              <=> 100 * FlaggedCount(x, args[1]) >= RuleLimits[x] * Len(args[1])
       /\ \A x \in {2, 4} :
            Emitted(RuleNames[x], outcome.value)
              => 100 * FlaggedCount(x, args[1]) >= RuleLimits[x] * Len(args[1])
       /\ (\A i \in 1..Len(args[1]) :
             get_overall_health_status(args[1][i])[1] \in {"Normal", "Caution"})
            => outcome.value = <<>>

\* a window of readings that all have overall severity Caution (systolic
\* 139, oxygen 92.0, temperature 38.0) has been given no prediction
C29_Witness ==
  /\ Predicted
  /\ Len(args[1]) >= 2
  /\ \A i \in 1..Len(args[1]) :
       /\ args[1][i] = CautionReading
       /\ get_overall_health_status(args[1][i])[1] = "Caution"
  /\ outcome.value = <<>>

\* the window with the readings at positions i and j exchanged
Swapped(window, i, j) ==
  [k \in 1..Len(window) |->
     IF k = i THEN window[j] ELSE IF k = j THEN window[i] ELSE window[k]]

\* the window with its first reading moved to the end
Rotated(window) ==
  [k \in 1..Len(window) |-> window[(k % Len(window)) + 1]]

\* the orderings of the window tried: every exchange of two readings, the
\* window backwards and the window rotated (for up to three readings these
\* are all the orderings there are)
Reorderings(window) ==
  {Swapped(window, i, j) : i, j \in 1..Len(window)}
    \cup {Reversed(window), Rotated(window)}

\* the same metrics under other record ids, another patient id and other
\* timestamps
Relabelled(window) ==
  [k \in 1..Len(window) |->
     <<1000 - k, 2, "1999-12-31 23:59:59.000001", window[k][4], window[k][5],
       window[k][6], window[k][7], window[k][8]>>]

\* the result of the HealthAnalyzer of health_analyzer.py is the same for
\* every ordering of the window and for every labelling of its readings
OrderIsIrrelevant ==
  Predicted =>
    /\ \A w \in Reorderings(args[1]) :
         predict_potential_conditions(w) = outcome
    /\ predict_potential_conditions(Relabelled(args[1])) = outcome
    /\ predict_potential_conditions(Relabelled(Reversed(args[1]))) = outcome

\* C30 as stated: the result of predict_potential_conditions (of
\* health_analyzer.py and of part_000) depends only on the multiset of
\* readings of the window: every ordering of the same readings gives the
\* same predictions with the same confidences, and record ids, patient ids
\* and timestamps have no influence.
C30_OrderAndLabelsIrrelevant ==
  /\ OrderIsIrrelevant
  /\ (Returned("part_000.predict_potential_conditions") /\ ~Not(args[1])) =>
       /\ \A w \in Reorderings(args[1]) :
            p0_predict_potential_conditions(w) = outcome
       /\ p0_predict_potential_conditions(Relabelled(args[1])) = outcome

\* C30 (amended): the result of predict_potential_conditions of
\* health_analyzer.py depends only on the multiset of readings of the
\* window, and record ids, patient ids and timestamps have no influence.
\* The result of predict_potential_conditions of part_000 depends on the
\* order: it is made from the metrics of the last reading of the window
\* alone, so every ordering that keeps the last reading in place gives the
\* same result; record ids, patient ids and timestamps have no influence
\* there either.
C30_OrderIrrelevantButInPart000 ==
  /\ OrderIsIrrelevant
  /\ (Returned("part_000.predict_potential_conditions") /\ ~Not(args[1])) =>
       LET n == Len(args[1])
       IN /\ p0_predict_potential_conditions(<<args[1][n]>>) = outcome
          /\ \A w \in Reorderings(args[1]) :
               w[n] = args[1][n] => p0_predict_potential_conditions(w) = outcome
          /\ p0_predict_potential_conditions(Relabelled(args[1])) = outcome

\* a window of three readings with record ids 1, 2, 3, whose first and last
\* readings differ in their metrics, has been given two or more predictions
\* by health_analyzer.py
C30_Witness ==
  /\ Predicted
  /\ Len(args[1]) = 3
  /\ args[1][1][1] = 1 /\ args[1][2][1] = 2 /\ args[1][3][1] = 3
  /\ args[1][1][4] # args[1][3][4]
  /\ args[1][1][7] # args[1][3][7]
  /\ Len(outcome.value) >= 2
====
